---- MODULE Spec2Model ----
(***************************************************************************)
(* A model of the mastra-firestore storage adapter: the Firestore-backed   *)
(* implementations of the memory, workflows, observability, scores,        *)
(* traces, legacy-evals and generic table operations.                      *)
(*                                                                         *)
(* The database is a map from collection name to (document id -> document *)
(* data); a document's data is a map from field name to value, and a      *)
(* field that is not stored is not in the map's domain.                    *)
(***************************************************************************)
EXTENDS Integers, Sequences, FiniteSets, TLC

VARIABLES
    db,                        \* collection name -> (document id -> data)
    now,                       \* the value the next `new Date()` returns
    autoN,                     \* how many backend-generated ids were handed out
    ignoreUndefinedProperties, \* the Firestore client's setting of that name
    ret,                       \* the latest call's outcome: what it returned or threw
    calls                      \* the calls in flight: caller -> position and locals

vars == <<db, now, autoN, ignoreUndefinedProperties, ret, calls>>

(***************************************************************************)
(* Bounds of the model.                                                    *)
(***************************************************************************)
MaxClock == 3
\* The longest input of a chunked batch call.
MaxRecords == 1200
\* The pages and page sizes a paginated call asks for, and the records per
\* collection a store holds when the call starts.
MaxPage == 2
MaxPerPage == 2
MaxStored == 3
\* The longest id list getMessagesById is called with.
MaxIds == 25
\* The most records per collection a call without page and perPage lists.
MaxListed == 22
\* Clock ticks per second: Date values carry sub-second precision.
TicksPerSecond == 2
\* The most writes the backend accepts in one batch commit.
FirestoreMaxBatchWrites == 500

(***************************************************************************)
(* Collections (the TABLE_* names the domains import).                     *)
(***************************************************************************)
TABLE_THREADS == "mastra_threads"
TABLE_MESSAGES == "mastra_messages"
TABLE_RESOURCES == "mastra_resources"
TABLE_WORKFLOW_SNAPSHOT == "mastra_workflow_snapshot"
TABLE_TRACES == "mastra_traces"
TABLE_AI_SPANS == "mastra_ai_spans"
TABLE_SCORERS == "mastra_scorers"
TABLE_EVALS == "mastra_evals"

Tables ==
    {TABLE_THREADS, TABLE_MESSAGES, TABLE_RESOURCES, TABLE_WORKFLOW_SNAPSHOT,
     TABLE_TRACES, TABLE_AI_SPANS, TABLE_SCORERS, TABLE_EVALS}

\* An argument the caller left out.
UNDEF == "undefined"

EmptyMap == [k \in {} |-> 0]

(***************************************************************************)
(* Firestore document operations.                                          *)
(***************************************************************************)
Exists(coll, id) == id \in DOMAIN db[coll]

\* { ...d, ...u }: the object spread, and what update() does to the
\* top-level fields it names.
Spread(d, u) ==
    [f \in DOMAIN d \cup DOMAIN u |-> IF f \in DOMAIN u THEN u[f] ELSE d[f]]

\* value || fallback, for a field the record may not carry
FieldOr(record, field, fallback) ==
    IF field \in DOMAIN record THEN record[field] ELSE fallback

\* The database with document `id` of `coll` holding `data`.
PutDoc(base, coll, id, data) ==
    [base EXCEPT ![coll] =
        [i \in DOMAIN base[coll] \cup {id} |-> IF i = id THEN data ELSE base[coll][i]]]

\* The database without document `id` of `coll`.
RemoveDoc(base, coll, id) ==
    [base EXCEPT ![coll] = [i \in DOMAIN base[coll] \ {id} |-> base[coll][i]]]

\* How deep the value of a document field nests maps: set(data, {merge:
\* true}) writes the leaves of `data`, so a map field is merged with the
\* stored map key by key, down to the first value that is not a map.
MapDepth(field) ==
    CASE field \in {"results", "context"} -> 2
      [] field \in {"runtimeContext", "result", "suspendedPaths",
                    "waitingPaths", "value", "metadata", "attributes"} -> 1
      [] OTHER -> 0

\* The value set(.., {merge: true}) leaves in a field that held `old` and is
\* written `new`, both maps nested `depth` deep (an empty map is a leaf).
RECURSIVE MergeLeaves(_, _, _)
MergeLeaves(depth, old, new) ==
    IF depth = 0 \/ DOMAIN new = {}
    THEN new
    ELSE [k \in DOMAIN old \cup DOMAIN new |->
            IF k \notin DOMAIN new THEN old[k]
            ELSE IF k \notin DOMAIN old THEN new[k]
            ELSE MergeLeaves(depth - 1, old[k], new[k])]

\* docRef.set(data, { merge: true }) on a stored document.
SetMerge(doc, data) ==
    [f \in DOMAIN doc \cup DOMAIN data |->
        IF f \notin DOMAIN data THEN doc[f]
        ELSE IF f \notin DOMAIN doc THEN data[f]
        ELSE MergeLeaves(MapDepth(f), doc[f], data[f])]

\* Mutant: update() written as a set() without merge, which replaces the
\* whole document.
UpdateAsOverwrite(doc, updates) == updates

\* docRef.update(updates) on a stored document: each named top-level field is
\* replaced, every other field is kept.
Update(doc, updates) == Spread(doc, updates)

(***************************************************************************)
(* Workflows domain (src/domains/workflows.ts).                            *)
(***************************************************************************)
WorkflowKeys == {<<"a", "b_c">>, <<"a_b", "c">>, <<"a", "c">>}

StepIds == {"s1", "s2"}

\* Step results: maps whose keys depend on the step's status.
ResultSuspended == [status |-> "suspended", suspendPayload |-> 1]

ResultSuccess == [status |-> "success", output |-> 2]

StepResults == {ResultSuspended, ResultSuccess}

\* `${workflowName}_${runId}`
SnapshotDocId(workflowName, runId) == workflowName \o "_" \o runId

\* data?.results || {}
StoredResults(id) ==
    IF Exists(TABLE_WORKFLOW_SNAPSHOT, id)
       /\ "results" \in DOMAIN db[TABLE_WORKFLOW_SNAPSHOT][id]
    THEN db[TABLE_WORKFLOW_SNAPSHOT][id]["results"]
    ELSE EmptyMap

\* results[stepId] = result
WithStepResult(results, stepId, result) == Spread(results, stepId :> result)

\* What set(data, {merge: true}) leaves in document `id` of `coll`.
MergedInto(coll, id, data) ==
    IF Exists(coll, id) THEN SetMerge(db[coll][id], data) ELSE data

updateWorkflowResults(workflowName, runId, stepId, result, runtimeContext) ==
    LET id == SnapshotDocId(workflowName, runId)
        results == WithStepResult(StoredResults(id), stepId, result)
        data == [workflowName |-> workflowName,
                 runId |-> runId,
                 results |-> results,
                 runtimeContext |-> runtimeContext,
                 updatedAt |-> now]
    IN  /\ now < MaxClock
        /\ db' = PutDoc(db, TABLE_WORKFLOW_SNAPSHOT, id,
                        MergedInto(TABLE_WORKFLOW_SNAPSHOT, id, data))
        /\ ret' = [op |-> "updateWorkflowResults", ok |-> TRUE, id |-> id,
                   stepId |-> stepId, result |-> result, value |-> results]
        /\ now' = now + 1
        /\ UNCHANGED <<autoN, ignoreUndefinedProperties, calls>>

\* The options of updateWorkflowState: status, and the optional fields the
\* caller supplies.
StateOpts ==
    {[status |-> "success"],
     [status |-> "failed", error |-> "boom"],
     [status |-> "suspended", suspendedPaths |-> ("s1" :> 1)],
     [status |-> "success", result |-> ResultSuccess, waitingPaths |-> EmptyMap]}

\* The `updates` object updateWorkflowState builds from opts.
StateUpdates(opts, time) ==
    LET optional == {"result", "error", "suspendedPaths", "waitingPaths"}
        given == optional \cap DOMAIN opts
    IN  Spread([status |-> opts.status, updatedAt |-> time],
               [f \in given |-> opts[f]])

updateWorkflowState(workflowName, runId, opts) ==
    LET id == SnapshotDocId(workflowName, runId)
    IN  /\ now < MaxClock
        /\ IF ~Exists(TABLE_WORKFLOW_SNAPSHOT, id)
           THEN /\ ret' = [op |-> "updateWorkflowState", ok |-> TRUE, id |-> id,
                           found |-> FALSE, value |-> UNDEF]
                /\ UNCHANGED db
           ELSE /\ db' = PutDoc(db, TABLE_WORKFLOW_SNAPSHOT, id,
                                Update(db[TABLE_WORKFLOW_SNAPSHOT][id],
                                       StateUpdates(opts, now)))
                /\ ret' = [op |-> "updateWorkflowState", ok |-> TRUE, id |-> id,
                           found |-> TRUE, opts |-> opts]
        /\ now' = now + 1
        /\ UNCHANGED <<autoN, ignoreUndefinedProperties, calls>>

\* A workflow run state as the engine persists it.
Snapshot(runId) ==
    [runId |-> runId, status |-> "running", value |-> EmptyMap,
     context |-> ("s1" :> ResultSuspended), activePaths |-> <<>>,
     serializedStepGraph |-> <<>>, suspendedPaths |-> EmptyMap,
     waitingPaths |-> EmptyMap, runtimeContext |-> EmptyMap, timestamp |-> 0]

ResourceIdArgs == {"res1", UNDEF}

\* { workflowName, resourceId, ...snapshot, updatedAt: new Date() }; a field
\* whose value is undefined is left out when the client ignores undefined
\* properties (and makes set() throw when it does not).
SnapshotData(workflowName, resourceId, snapshot, time) ==
    Spread(Spread(IF resourceId = UNDEF
                  THEN [workflowName |-> workflowName]
                  ELSE [workflowName |-> workflowName, resourceId |-> resourceId],
                  snapshot),
           [updatedAt |-> time])

persistWorkflowSnapshot(workflowName, runId, resourceId, snapshot) ==
    LET id == SnapshotDocId(workflowName, runId)
        data == SnapshotData(workflowName, resourceId, snapshot, now)
    IN  /\ now < MaxClock
        /\ IF resourceId = UNDEF /\ ~ignoreUndefinedProperties
           THEN /\ ret' = [op |-> "persistWorkflowSnapshot", ok |-> FALSE,
                           id |-> id, error |-> "undefined value in field resourceId"]
                /\ UNCHANGED db
           ELSE /\ db' = PutDoc(db, TABLE_WORKFLOW_SNAPSHOT, id,
                                MergedInto(TABLE_WORKFLOW_SNAPSHOT, id, data))
                /\ ret' = [op |-> "persistWorkflowSnapshot", ok |-> TRUE, id |-> id]
        /\ now' = now + 1
        /\ UNCHANGED <<autoN, ignoreUndefinedProperties, calls>>

deserializeWorkflowRunState(data) ==
    [runId |-> FieldOr(data, "runId", UNDEF),
     status |-> FieldOr(data, "status", UNDEF),
     result |-> FieldOr(data, "result", UNDEF),
     runtimeContext |-> FieldOr(data, "runtimeContext", EmptyMap),
     error |-> FieldOr(data, "error", UNDEF),
     suspendedPaths |-> FieldOr(data, "suspendedPaths", EmptyMap),
     waitingPaths |-> FieldOr(data, "waitingPaths", EmptyMap),
     timestamp |-> FieldOr(data, "timestamp", UNDEF),
     value |-> FieldOr(data, "value", EmptyMap),
     context |-> FieldOr(data, "context", EmptyMap),
     serializedStepGraph |-> FieldOr(data, "serializedStepGraph", <<>>),
     activePaths |-> FieldOr(data, "activePaths", <<>>)]

(***************************************************************************)
(* Batched writes: db.batch(), batch.set / update / delete, batch.commit(). *)
(* A commit applies all its writes or none.                                *)
(***************************************************************************)
SetOp(coll, id, data) == [kind |-> "set", coll |-> coll, id |-> id, data |-> data]

DeleteOp(coll, id) == [kind |-> "delete", coll |-> coll, id |-> id]

ApplyWrite(base, w) ==
    IF w.kind = "delete"
    THEN RemoveDoc(base, w.coll, w.id)
    ELSE PutDoc(base, w.coll, w.id, w.data)

RECURSIVE ApplyBatch(_, _)
ApplyBatch(base, batch) ==
    IF batch = <<>> THEN base
    ELSE ApplyBatch(ApplyWrite(base, Head(batch)), Tail(batch))

\* The backend rejects a commit that carries more writes than it allows.
CommitAccepted(batch) == Len(batch) <= FirestoreMaxBatchWrites

(***************************************************************************)
(* Memory domain: threads, messages, resources.                            *)
(***************************************************************************)
ThreadIds == {"T1", "T2"}

MessageIds == {"m1", "m2", "m3"}

ResourceIds == {"R1", "R2"}

\* { ...thread, createdAt: thread.createdAt || now, updatedAt: now }
ThreadData(thread, time) ==
    Spread(thread, [createdAt |-> FieldOr(thread, "createdAt", time),
                    updatedAt |-> time])

serializeThread(thread) ==
    [id |-> thread.id,
     resourceId |-> thread.resourceId,
     title |-> thread.title,
     metadata |-> FieldOr(thread, "metadata", EmptyMap),
     createdAt |-> thread.createdAt,
     updatedAt |-> thread.updatedAt]

deserializeThread(data) ==
    [id |-> data.id,
     resourceId |-> data.resourceId,
     title |-> data.title,
     metadata |-> FieldOr(data, "metadata", EmptyMap),
     createdAt |-> data.createdAt,
     updatedAt |-> data.updatedAt]

\* What a lookup returns for a document that does not exist.
NULL == [isNull |-> TRUE]

\* Mutant: a lookup that answers an empty record for a missing document.
GetThreadByIdEmpty(base, threadId) ==
    IF threadId \in DOMAIN base[TABLE_THREADS]
    THEN deserializeThread(base[TABLE_THREADS][threadId])
    ELSE EmptyMap

GetThreadById(base, threadId) ==
    IF threadId \in DOMAIN base[TABLE_THREADS]
    THEN deserializeThread(base[TABLE_THREADS][threadId])
    ELSE NULL

saveThread(thread) ==
    LET threadData == ThreadData(thread, now)
    IN  /\ now < MaxClock
        /\ db' = PutDoc(db, TABLE_THREADS, thread.id, serializeThread(threadData))
        /\ ret' = [op |-> "saveThread", ok |-> TRUE, id |-> thread.id,
                   value |-> threadData]
        /\ now' = now + 1
        /\ UNCHANGED <<autoN, ignoreUndefinedProperties, calls>>

\* Mutant: updateThread that writes the thread whether or not it exists.
updateThreadUpsert(id, title, metadata) ==
    /\ now < MaxClock
    /\ db' = PutDoc(db, TABLE_THREADS, id,
                    [title |-> title, metadata |-> metadata, updatedAt |-> now])
    /\ ret' = [op |-> "updateThread", ok |-> TRUE, id |-> id]
    /\ now' = now + 1
    /\ UNCHANGED <<autoN, ignoreUndefinedProperties, calls>>

\* The `updates` object of updateThread.
ThreadUpdates(title, metadata, time) ==
    [title |-> title, metadata |-> metadata, updatedAt |-> time]

updateThread(id, title, metadata) ==
    /\ now < MaxClock
    /\ IF ~Exists(TABLE_THREADS, id)
       THEN /\ ret' = [op |-> "updateThread", ok |-> FALSE, id |-> id,
                       error |-> "Thread " \o id \o " not found"]
            /\ UNCHANGED db
       ELSE LET doc == Update(db[TABLE_THREADS][id],
                              ThreadUpdates(title, metadata, now))
            IN  /\ db' = PutDoc(db, TABLE_THREADS, id, doc)
                /\ ret' = [op |-> "updateThread", ok |-> TRUE, id |-> id,
                           value |-> deserializeThread(doc)]
    /\ now' = now + 1
    /\ UNCHANGED <<autoN, ignoreUndefinedProperties, calls>>

\* The ids of the stored messages whose threadId is `threadId`.
MessagesOfThread(base, threadId) ==
    {m \in DOMAIN base[TABLE_MESSAGES] :
        /\ "threadId" \in DOMAIN base[TABLE_MESSAGES][m]
        /\ base[TABLE_MESSAGES][m]["threadId"] = threadId}

\* A set as a sequence, in some order.
RECURSIVE SeqOfSet(_)
SeqOfSet(S) ==
    IF S = {} THEN <<>>
    ELSE LET x == CHOOSE y \in S : TRUE IN <<x>> \o SeqOfSet(S \ {x})

\* Mutant: deleteThread without the cascade to the thread's messages.
ThreadMessagesBatchEmpty(base, threadId) == <<>>

\* The batch deleteThread fills: one delete per message of the thread.
ThreadMessagesBatch(base, threadId) ==
    LET ids == SeqOfSet(MessagesOfThread(base, threadId))
    IN  [k \in 1..Len(ids) |-> DeleteOp(TABLE_MESSAGES, ids[k])]

deleteThread(threadId) ==
    LET afterThread == RemoveDoc(db, TABLE_THREADS, threadId)
        batch == ThreadMessagesBatch(afterThread, threadId)
    IN  /\ now < MaxClock
        /\ IF Len(batch) > 0 /\ ~CommitAccepted(batch)
           THEN /\ db' = afterThread
                /\ ret' = [op |-> "deleteThread", ok |-> FALSE, id |-> threadId,
                           error |-> "batch commit rejected"]
           ELSE /\ db' = ApplyBatch(afterThread, batch)
                /\ ret' = [op |-> "deleteThread", ok |-> TRUE, id |-> threadId,
                           hadThread |-> Exists(TABLE_THREADS, threadId),
                           deleted |-> Len(batch)]
        /\ now' = now + 1
        /\ UNCHANGED <<autoN, ignoreUndefinedProperties, calls>>

\* { ...message, createdAt: message.createdAt || now }
MessageData(message, time) ==
    Spread(message, [createdAt |-> FieldOr(message, "createdAt", time)])

serializeMessage(message) == Spread(message, [createdAt |-> message.createdAt])

deserializeMessage(data) == Spread(data, [createdAt |-> data.createdAt])

\* The batch saveMessages fills: one set per message, in input order.
SaveMessagesBatch(messages, time) ==
    [k \in 1..Len(messages) |->
        SetOp(TABLE_MESSAGES, messages[k].id,
              serializeMessage(MessageData(messages[k], time)))]

saveMessages(messages) ==
    LET batch == SaveMessagesBatch(messages, now)
    IN  /\ now < MaxClock
        /\ IF Len(messages) = 0
           THEN /\ ret' = [op |-> "saveMessages", ok |-> TRUE, value |-> <<>>]
                /\ UNCHANGED db
           ELSE IF ~CommitAccepted(batch)
           THEN /\ ret' = [op |-> "saveMessages", ok |-> FALSE,
                           error |-> "batch commit rejected"]
                /\ UNCHANGED db
           ELSE /\ db' = ApplyBatch(db, batch)
                /\ ret' = [op |-> "saveMessages", ok |-> TRUE, value |-> messages]
        /\ now' = now + 1
        /\ UNCHANGED <<autoN, ignoreUndefinedProperties, calls>>

\* Sorting: documents by a field, ties by document id; the document ids the
\* model uses, in Firestore's (lexicographic) order.
DocIdOrder ==
    <<"R1", "R2", "T1", "T10", "T11", "T12", "T13", "T14", "T15", "T16",
      "T17", "T18", "T19", "T2", "T20", "T21", "T22", "T23", "T24", "T25",
      "T26", "T3", "T4", "T5", "T6", "T7", "T8", "T9", "auto1", "auto10",
      "auto11", "auto12", "auto13", "auto14", "auto15", "auto16", "auto17",
      "auto18", "auto19", "auto2", "auto20", "auto21", "auto22", "auto23",
      "auto24", "auto25", "auto26", "auto3", "auto4", "auto5", "auto6",
      "auto7", "auto8", "auto9", "d1", "e1", "e2", "ev1", "ev10", "ev11",
      "ev12", "ev13", "ev14", "ev15", "ev16", "ev17", "ev18", "ev19",
      "ev2", "ev20", "ev21", "ev22", "ev23", "ev24", "ev25", "ev26", "ev3",
      "ev4", "ev5", "ev6", "ev7", "ev8", "ev9", "m1", "m10", "m11", "m12",
      "m13", "m14", "m15", "m16", "m17", "m18", "m19", "m2", "m20", "m21",
      "m22", "m23", "m24", "m25", "m26", "m3", "m4", "m5", "m6", "m7",
      "m8", "m9", "sc1", "sc2", "sc3", "sc4", "sc5", "sc6", "sp1", "sp10",
      "sp11", "sp12", "sp13", "sp14", "sp15", "sp16", "sp17", "sp18",
      "sp19", "sp2", "sp20", "sp21", "sp22", "sp23", "sp24", "sp25",
      "sp26", "sp3", "sp4", "sp5", "sp6", "sp7", "sp8", "sp9", "t1", "tc1",
      "tc10", "tc11", "tc12", "tc13", "tc14", "tc15", "tc16", "tc17",
      "tc18", "tc19", "tc2", "tc20", "tc21", "tc22", "tc23", "tc24",
      "tc25", "tc26", "tc3", "tc4", "tc5", "tc6", "tc7", "tc8", "tc9">>

DocIdRank(id) == CHOOSE k \in 1..Len(DocIdOrder) : DocIdOrder[k] = id

\* Whether document a comes before document b in a query ordered by `field`.
Before(coll, a, b, field, direction) ==
    LET va == coll[a][field]
        vb == coll[b][field]
    IN  IF va = vb THEN (IF direction = "asc"
                         THEN DocIdRank(a) < DocIdRank(b)
                         ELSE DocIdRank(a) > DocIdRank(b))
        ELSE IF direction = "asc" THEN va < vb ELSE va > vb

\* query.orderBy(field, direction): the ids of `ids` in order. A document
\* that does not carry the field is not in the result.
OrderBy(coll, ids, field, direction) ==
    LET have == {i \in ids : field \in DOMAIN coll[i]}
        pos(i) == 1 + Cardinality({j \in have : Before(coll, j, i, field, direction)})
    IN  [k \in 1..Cardinality(have) |-> CHOOSE i \in have : pos(i) = k]

\* The include list of selectBy adds one `id ==` filter per entry.
MatchesInclude(id, include) == \A k \in 1..Len(include) : id = include[k]

GetMessages(base, threadId, include) ==
    LET coll == base[TABLE_MESSAGES]
        ids == {m \in MessagesOfThread(base, threadId) : MatchesInclude(m, include)}
        ordered == OrderBy(coll, ids, "createdAt", "asc")
    IN  [k \in 1..Len(ordered) |-> deserializeMessage(coll[ordered[k]])]

UpdateOp(coll, id, data) == [kind |-> "update", coll |-> coll, id |-> id, data |-> data]

\* The fields updateMessages writes for one message: the two content paths
\* when given, and every other key but id, createdAt and content.
MessageUpdates(message) ==
    LET paths == IF "content" \in DOMAIN message
                 THEN {"metadata", "content"} \cap DOMAIN message["content"]
                 ELSE {}
        other == [f \in DOMAIN message \ {"id", "createdAt", "content"} |-> message[f]]
    IN  IF paths = {} THEN other
        ELSE Spread(other, [content |-> [q \in paths |-> message["content"][q]]])

\* batch.update(docRef, updates) on a stored message: "content.metadata" and
\* "content.content" replace those keys inside the stored content map, the
\* other keys replace top-level fields.
UpdatedMessage(doc, updates) ==
    LET top == [f \in DOMAIN updates \ {"content"} |-> updates[f]]
        withTop == Update(doc, top)
    IN  IF "content" \in DOMAIN updates
        THEN Update(withTop,
                    [content |-> Spread(FieldOr(doc, "content", EmptyMap),
                                        updates["content"])])
        ELSE withTop

\* The first message of the input, if any, that is not stored.
FirstMissing(messages) ==
    LET missing == {k \in 1..Len(messages) : ~Exists(TABLE_MESSAGES, messages[k].id)}
    IN  IF missing = {} THEN 0 ELSE CHOOSE k \in missing : \A j \in missing : k <= j

\* The documents after the updates of the batch, applied in input order.
RECURSIVE ApplyMessageUpdates(_, _)
ApplyMessageUpdates(base, messages) ==
    IF messages = <<>> THEN base
    ELSE LET m == Head(messages)
         IN  ApplyMessageUpdates(
                 PutDoc(base, TABLE_MESSAGES, m.id,
                        UpdatedMessage(base[TABLE_MESSAGES][m.id], MessageUpdates(m))),
                 Tail(messages))

updateMessages(messages) ==
    LET k == FirstMissing(messages)
        empty == {j \in 1..Len(messages) : DOMAIN MessageUpdates(messages[j]) = {}}
    IN  /\ now < MaxClock
        /\ IF k # 0 /\ \A j \in empty : k <= j
           THEN /\ ret' = [op |-> "updateMessages", ok |-> FALSE,
                           error |-> "Message " \o messages[k].id \o " not found"]
                /\ UNCHANGED db
           ELSE IF empty # {}
           THEN /\ ret' = [op |-> "updateMessages", ok |-> FALSE,
                           error |-> "At least one field must be updated"]
                /\ UNCHANGED db
           ELSE IF Len(messages) > FirestoreMaxBatchWrites
           THEN /\ ret' = [op |-> "updateMessages", ok |-> FALSE,
                           error |-> "batch commit rejected"]
                /\ UNCHANGED db
           ELSE /\ db' = ApplyMessageUpdates(db, messages)
                /\ ret' = [op |-> "updateMessages", ok |-> TRUE,
                           ids |-> [j \in 1..Len(messages) |-> messages[j].id]]
        /\ now' = now + 1
        /\ UNCHANGED <<autoN, ignoreUndefinedProperties, calls>>

\* const batchSize = 500
batchSize == 500

Min(a, b) == IF a < b THEN a ELSE b

Ceil(n, d) == (n + d - 1) \div d

\* items.slice(i, i + batchSize), i counted from 0
SliceShort(items, i, size) == SubSeq(items, i + 1, Min(i + size - 1, Len(items)))

Slice(items, i, size) == SubSeq(items, i + 1, Min(i + size, Len(items)))

\* The batches a chunked loop commits from position i on.
RECURSIVE DeleteMessagesFrom(_, _, _)
DeleteMessagesFrom(base, messageIds, i) ==
    IF i >= Len(messageIds) THEN base
    ELSE LET batchIds == Slice(messageIds, i, batchSize)
             batch == [k \in 1..Len(batchIds) |-> DeleteOp(TABLE_MESSAGES, batchIds[k])]
         IN  DeleteMessagesFrom(ApplyBatch(base, batch), messageIds, i + batchSize)

deleteMessages(messageIds) ==
    /\ now < MaxClock
    /\ db' = IF Len(messageIds) = 0 THEN db ELSE DeleteMessagesFrom(db, messageIds, 0)
    /\ ret' = [op |-> "deleteMessages", ok |-> TRUE]
    /\ now' = now + 1
    /\ UNCHANGED <<autoN, ignoreUndefinedProperties, calls>>

\* { ...resource, createdAt: resource.createdAt || now, updatedAt: now }
ResourceData(resource, time) ==
    Spread(resource, [createdAt |-> FieldOr(resource, "createdAt", time),
                      updatedAt |-> time])

serializeResource(resource) ==
    [id |-> resource.id,
     workingMemory |-> FieldOr(resource, "workingMemory", ""),
     metadata |-> FieldOr(resource, "metadata", EmptyMap),
     createdAt |-> resource.createdAt,
     updatedAt |-> resource.updatedAt]

deserializeResource(data) ==
    [id |-> data.id,
     workingMemory |-> FieldOr(data, "workingMemory", ""),
     metadata |-> FieldOr(data, "metadata", EmptyMap),
     createdAt |-> data.createdAt,
     updatedAt |-> data.updatedAt]

saveResource(resource) ==
    LET resourceData == ResourceData(resource, now)
    IN  /\ now < MaxClock
        /\ db' = PutDoc(db, TABLE_RESOURCES, resource.id,
                        serializeResource(resourceData))
        /\ ret' = [op |-> "saveResource", ok |-> TRUE, id |-> resource.id,
                   value |-> resourceData]
        /\ now' = now + 1
        /\ UNCHANGED <<autoN, ignoreUndefinedProperties, calls>>

\* The `updates` object of updateResource: updatedAt, and workingMemory and
\* metadata when the caller gives them (args carries the given ones).
ResourceUpdates(args, time) ==
    Spread([updatedAt |-> time],
           [f \in {"workingMemory", "metadata"} \cap DOMAIN args |-> args[f]])

updateResource(resourceId, args) ==
    /\ now < MaxClock
    /\ IF ~Exists(TABLE_RESOURCES, resourceId)
       THEN /\ ret' = [op |-> "updateResource", ok |-> FALSE, id |-> resourceId,
                       error |-> "Resource " \o resourceId \o " not found"]
            /\ UNCHANGED db
       ELSE LET doc == Update(db[TABLE_RESOURCES][resourceId],
                              ResourceUpdates(args, now))
            IN  /\ db' = PutDoc(db, TABLE_RESOURCES, resourceId, doc)
                /\ ret' = [op |-> "updateResource", ok |-> TRUE, id |-> resourceId,
                           value |-> deserializeResource(doc)]
    /\ now' = now + 1
    /\ UNCHANGED <<autoN, ignoreUndefinedProperties, calls>>

(***************************************************************************)
(* Generic table operations (StoreOperationsFirestore).                    *)
(***************************************************************************)
\* Backend-generated document ids, in the order they are handed out.
AutoId(n) == "auto" \o ToString(n + 1)

\* The fields that hold dates.
TimeFields == {"createdAt", "updatedAt", "timestamp", "startedAt", "endedAt"}

\* new Date(value._seconds * 1000): a stored timestamp read back by
\* deserializeRecord keeps its whole seconds only.
WholeSeconds(time) == (time \div TicksPerSecond) * TicksPerSecond

serializeRecord(record) == [f \in DOMAIN record |-> record[f]]

deserializeRecord(data) ==
    [f \in DOMAIN data |->
        IF f \in TimeFields THEN WholeSeconds(data[f]) ELSE data[f]]

\* record.id && typeof record.id === "string"
HasStringId(record) == "id" \in DOMAIN record

\* Mutant: insert() that always lets the backend generate the document id.
InsertDocIdGenerated(record, n) == AutoId(n)

\* The document insert() writes: the record's id, or a generated one.
InsertDocId(record, n) == IF HasStringId(record) THEN record.id ELSE AutoId(n)

\* The database and the count of generated ids after insert(tableName, record).
Inserted(base, n, tableName, record) ==
    [db |-> PutDoc(base, tableName, InsertDocId(record, n), serializeRecord(record)),
     autoN |-> IF HasStringId(record) THEN n ELSE n + 1]

insert(tableName, record) ==
    LET after == Inserted(db, autoN, tableName, record)
    IN  /\ now < MaxClock
        /\ db' = after.db
        /\ autoN' = after.autoN
        /\ ret' = [op |-> "insert", ok |-> TRUE,
                   id |-> InsertDocId(record, autoN)]
        /\ now' = now + 1
        /\ UNCHANGED <<ignoreUndefinedProperties, calls>>

\* One batch of batchInsert, committed: every record of the batch is set.
RECURSIVE InsertedAll(_, _, _, _)
InsertedAll(base, n, tableName, records) ==
    IF records = <<>> THEN [db |-> base, autoN |-> n]
    ELSE LET one == Inserted(base, n, tableName, Head(records))
         IN  InsertedAll(one.db, one.autoN, tableName, Tail(records))

\* The batches batchInsert commits from position i on.
RECURSIVE BatchInsertFrom(_, _, _, _, _)
BatchInsertFrom(base, n, tableName, records, i) ==
    IF i >= Len(records) THEN [db |-> base, autoN |-> n]
    ELSE LET done == InsertedAll(base, n, tableName, Slice(records, i, batchSize))
         IN  BatchInsertFrom(done.db, done.autoN, tableName, records, i + batchSize)

batchInsert(tableName, records) ==
    LET after == BatchInsertFrom(db, autoN, tableName, records, 0)
    IN  /\ now < MaxClock
        /\ db' = after.db
        /\ autoN' = after.autoN
        /\ ret' = [op |-> "batchInsert", ok |-> TRUE]
        /\ now' = now + 1
        /\ UNCHANGED <<ignoreUndefinedProperties, calls>>

\* The documents of a collection that a query with one `==` filter per key
\* matches.
Matching(base, tableName, keys) ==
    {i \in DOMAIN base[tableName] :
        \A f \in DOMAIN keys :
            /\ f \in DOMAIN base[tableName][i]
            /\ base[tableName][i][f] = keys[f]}

\* The documents load() may read: the document keys.id names, or else any
\* document the filters match (limit(1) without an order returns the first by
\* document id, and generated ids are random).
LoadCandidates(base, tableName, keys) ==
    IF "id" \in DOMAIN keys
    THEN {keys.id} \cap DOMAIN base[tableName]
    ELSE Matching(base, tableName, keys)

(***************************************************************************)
(* Observability domain: AI spans.                                         *)
(***************************************************************************)
\* { ...span, createdAt: span.createdAt || new Date() }
SpanData(span, time) ==
    Spread(span, [createdAt |-> FieldOr(span, "createdAt", time)])

createAISpan(span) ==
    LET after == Inserted(db, autoN, TABLE_AI_SPANS, SpanData(span, now))
    IN  /\ now < MaxClock
        /\ db' = after.db
        /\ autoN' = after.autoN
        /\ ret' = [op |-> "createAISpan", ok |-> TRUE,
                   id |-> InsertDocId(span, autoN)]
        /\ now' = now + 1
        /\ UNCHANGED <<ignoreUndefinedProperties, calls>>

\* { ...existingSpan, ...updates, spanId, traceId, updatedAt: new Date() }
UpdatedSpan(existingSpan, updates, spanId, traceId, time) ==
    Spread(Spread(existingSpan, updates),
           [spanId |-> spanId, traceId |-> traceId, updatedAt |-> time])

updateAISpan(spanId, traceId, updates) ==
    LET found == LoadCandidates(db, TABLE_AI_SPANS,
                                [spanId |-> spanId, traceId |-> traceId])
    IN  /\ now < MaxClock
        /\ IF found = {}
           THEN /\ ret' = [op |-> "updateAISpan", ok |-> FALSE, id |-> spanId,
                           traceId |-> traceId,
                           error |-> "Span " \o spanId \o " in trace " \o traceId
                                     \o " not found"]
                /\ UNCHANGED <<db, autoN>>
           ELSE \E source \in found :
                LET existingSpan == deserializeRecord(db[TABLE_AI_SPANS][source])
                    updatedSpan == UpdatedSpan(existingSpan, updates, spanId,
                                               traceId, now)
                    after == Inserted(db, autoN, TABLE_AI_SPANS, updatedSpan)
                IN  /\ db' = after.db
                    /\ autoN' = after.autoN
                    /\ ret' = [op |-> "updateAISpan", ok |-> TRUE, id |-> spanId,
                               traceId |-> traceId,
                               source |-> source,
                               target |-> InsertDocId(updatedSpan, autoN)]
        /\ now' = now + 1
        /\ UNCHANGED <<ignoreUndefinedProperties, calls>>

(***************************************************************************)
(* Scores domain.                                                          *)
(***************************************************************************)
\* The fields serializeScore copies from the score.
ScoreFields ==
    {"id", "scorerId", "entityId", "entityType", "source", "runId", "traceId",
     "spanId", "score", "createdAt", "updatedAt"}

\* { ...score, id: docRef.id, createdAt: now, updatedAt: now }
ScoreData(score, id, time) ==
    Spread(score, [id |-> id, createdAt |-> time, updatedAt |-> time])

\* A field the score does not carry is written as undefined: the client
\* leaves it out when it ignores undefined properties.
serializeScore(score) ==
    Spread([f \in ScoreFields \cap DOMAIN score |-> score[f]],
           [metadata |-> FieldOr(score, "metadata", EmptyMap)])

deserializeScore(data) ==
    Spread([f \in ScoreFields |-> FieldOr(data, f, UNDEF)],
           [metadata |-> FieldOr(data, "metadata", EmptyMap),
            output |-> EmptyMap, input |-> EmptyMap,
            entity |-> EmptyMap, scorer |-> EmptyMap])

saveScore(score) ==
    LET scoreData == ScoreData(score, AutoId(autoN), now)
    IN  /\ now < MaxClock
        /\ autoN' = autoN + 1
        /\ IF ~(ScoreFields \subseteq DOMAIN scoreData) /\ ~ignoreUndefinedProperties
           THEN /\ ret' = [op |-> "saveScore", ok |-> FALSE,
                           error |-> "undefined value in a score field"]
                /\ UNCHANGED db
           ELSE /\ db' = PutDoc(db, TABLE_SCORERS, scoreData.id,
                                serializeScore(scoreData))
                /\ ret' = [op |-> "saveScore", ok |-> TRUE, id |-> scoreData.id,
                           value |-> scoreData]
        /\ now' = now + 1
        /\ UNCHANGED <<ignoreUndefinedProperties, calls>>

(***************************************************************************)
(* Traces domain.                                                          *)
(***************************************************************************)
\* { ...trace, timestamp: trace.timestamp || new Date() }
serializeTrace(trace, time) ==
    Spread(trace, [timestamp |-> FieldOr(trace, "timestamp", time)])

deserializeTrace(data) ==
    [f \in {"id", "parentSpanId", "name", "traceId", "attributes", "links",
            "createdAt", "scope", "kind", "status", "startTime", "endTime"}
        |-> FieldOr(data, f, UNDEF)]

\* One batch of batchTraceInsert, committed.
RECURSIVE TracesInserted(_, _, _, _)
TracesInserted(base, n, batchRecords, time) ==
    IF batchRecords = <<>> THEN [db |-> base, autoN |-> n]
    ELSE LET record == Head(batchRecords)
             id == IF "id" \in DOMAIN record THEN record.id ELSE AutoId(n)
         IN  TracesInserted(
                 PutDoc(base, TABLE_TRACES, id, serializeTrace(record, time)),
                 IF "id" \in DOMAIN record THEN n ELSE n + 1,
                 Tail(batchRecords), time)

\* The batches batchTraceInsert commits from position i on.
RECURSIVE BatchTraceInsertFrom(_, _, _, _, _)
BatchTraceInsertFrom(base, n, records, i, time) ==
    IF i >= Len(records) THEN [db |-> base, autoN |-> n]
    ELSE LET done == TracesInserted(base, n, Slice(records, i, batchSize), time)
         IN  BatchTraceInsertFrom(done.db, done.autoN, records, i + batchSize, time)

batchTraceInsert(records) ==
    LET after == BatchTraceInsertFrom(db, autoN, records, 0, now)
    IN  /\ now < MaxClock
        /\ db' = after.db
        /\ autoN' = after.autoN
        /\ ret' = [op |-> "batchTraceInsert", ok |-> TRUE]
        /\ now' = now + 1
        /\ UNCHANGED <<ignoreUndefinedProperties, calls>>

(***************************************************************************)
(* Legacy evals domain (src/domains/legacy-evals.ts).                      *)
(***************************************************************************)
deserializeEval(data) ==
    [agentName |-> FieldOr(data, "agentName", UNDEF),
     input |-> FieldOr(data, "input", UNDEF),
     output |-> FieldOr(data, "output", UNDEF),
     result |-> FieldOr(data, "result", FieldOr(data, "score", EmptyMap)),
     metricName |-> FieldOr(data, "metricName", "unknown"),
     instructions |-> FieldOr(data, "instructions", ""),
     runId |-> FieldOr(data, "runId", ""),
     globalRunId |-> FieldOr(data, "globalRunId", ""),
     testInfo |-> FieldOr(data, "testInfo", UNDEF),
     createdAt |-> data.createdAt]

(***************************************************************************)
(* Initial state: an empty database.                                       *)
(***************************************************************************)
EmptyDb == [t \in Tables |-> EmptyMap]

Init ==
    /\ db = EmptyDb
    /\ now = 0
    /\ autoN = 0
    /\ ignoreUndefinedProperties \in BOOLEAN
    /\ ret = [op |-> "init", ok |-> TRUE]
    /\ calls = EmptyMap

(***************************************************************************)
(* The calls the model makes, and the arguments it draws.                  *)
(***************************************************************************)
ThreadArgs ==
    {[id |-> t, resourceId |-> "R1", title |-> "first", metadata |-> EmptyMap]
        : t \in ThreadIds}
    \cup {[id |-> "T1", resourceId |-> "R1", title |-> "first", createdAt |-> 0]}

Message(id, threadId) ==
    [id |-> id, threadId |-> threadId, role |-> "user",
     content |-> [content |-> "hello", metadata |-> EmptyMap]]

MessageLists ==
    {<<>>, <<Message("m1", "T1")>>, <<Message("m2", "T2")>>,
     <<Message("m1", "T1"), Message("m2", "T1"), Message("m3", "T1")>>,
     <<Spread(Message("m3", "T2"), [createdAt |-> 0])>>}

\* A database that already holds a thread and one message of it, as
\* saveThread and saveMessages store them.
SeededDb ==
    LET thread == [id |-> "T2", resourceId |-> "R1", title |-> "other",
                   metadata |-> EmptyMap]
    IN  ApplyBatch(PutDoc(EmptyDb, TABLE_THREADS, "T2",
                          serializeThread(ThreadData(thread, 0))),
                   SaveMessagesBatch(<<Message("m4", "T2")>>, 0))

InitMemory ==
    /\ db \in {EmptyDb, SeededDb}
    /\ now = 0
    /\ autoN = 0
    /\ ignoreUndefinedProperties = FALSE
    /\ ret = [op |-> "init", ok |-> TRUE]
    /\ calls = EmptyMap

MessageUpdateLists ==
    {<<[id |-> "m1", role |-> "assistant"]>>,
     <<[id |-> "m1", content |-> [metadata |-> ("k" :> 1)]], [id |-> "m2", role |-> "assistant"]>>}

MessageIdLists == {<<>>, <<"m1">>, <<"m1", "m2">>}

ResourceArgs ==
    {[id |-> "R1", workingMemory |-> "notes"],
     [id |-> "R1", metadata |-> ("k" :> 1), createdAt |-> 0]}

ResourceUpdateArgs ==
    {[workingMemory |-> "w2"], [metadata |-> ("k" :> 2)], EmptyMap}

SpanArgs ==
    {[traceId |-> "tr", spanId |-> "sp1", name |-> "llm"],
     [traceId |-> "tr", spanId |-> "sp1", name |-> "llm", id |-> "d1", createdAt |-> 1]}

SpanKeys == {<<"sp1", "tr">>, <<"sp2", "tr">>}

SpanUpdates == {[name |-> "llm2"], [endedAt |-> 1]}

Records == {[id |-> "e1", agentName |-> "agent"], [agentName |-> "agent"]}

RecordLists == {<<>>, <<[id |-> "e2", agentName |-> "agent"], [agentName |-> "agent"]>>}

Score(runId) ==
    [scorerId |-> "scorer", entityId |-> "agent", entityType |-> "AGENT",
     source |-> "LIVE", runId |-> runId, traceId |-> "tr", spanId |-> "sp1",
     score |-> 1]

TraceLists ==
    {<<>>, <<[id |-> "t1", name |-> "op"], [name |-> "op", timestamp |-> 0]>>}

MemoryNext ==
    \/ \E thread \in ThreadArgs : saveThread(thread)
    \/ \E id \in ThreadIds : updateThread(id, "second", ("k" :> 1))
    \/ \E threadId \in ThreadIds : deleteThread(threadId)
    \/ \E messages \in MessageLists : saveMessages(messages)
    \/ \E messages \in MessageUpdateLists : updateMessages(messages)
    \/ \E messageIds \in MessageIdLists : deleteMessages(messageIds)
    \/ \E resource \in ResourceArgs : saveResource(resource)
    \/ \E id \in ResourceIds, args \in ResourceUpdateArgs : updateResource(id, args)

WorkflowsNext ==
    \/ \E key \in WorkflowKeys, stepId \in StepIds, result \in StepResults :
          updateWorkflowResults(key[1], key[2], stepId, result, EmptyMap)
    \/ \E key \in WorkflowKeys, opts \in StateOpts :
          updateWorkflowState(key[1], key[2], opts)
    \/ \E key \in WorkflowKeys, resourceId \in ResourceIdArgs :
          persistWorkflowSnapshot(key[1], key[2], resourceId, Snapshot(key[2]))

ObservabilityNext ==
    \/ \E span \in SpanArgs : createAISpan(span)
    \/ \E key \in SpanKeys, updates \in SpanUpdates :
          updateAISpan(key[1], key[2], updates)

OperationsNext ==
    \/ \E record \in Records : insert(TABLE_EVALS, record)
    \/ \E records \in RecordLists : batchInsert(TABLE_EVALS, records)

ScoresNext ==
    \E runId \in {"run1", "run2"} : saveScore(Score(runId))

TracesNext ==
    \E records \in TraceLists : batchTraceInsert(records)

Next ==
    \/ MemoryNext
    \/ WorkflowsNext
    \/ ObservabilityNext
    \/ OperationsNext
    \/ ScoresNext
    \/ TracesNext

Spec == Init /\ [][Next]_vars

SpecWorkflows == Init /\ [][WorkflowsNext]_vars

SpecMemory == InitMemory /\ [][MemoryNext]_vars

\* The updates that need an existing record, and the calls that create one.
UpdatesNext ==
    \/ \E id \in ThreadIds : updateThread(id, "second", ("k" :> 1))
    \/ \E id \in ResourceIds, args \in ResourceUpdateArgs : updateResource(id, args)
    \/ \E key \in WorkflowKeys, opts \in StateOpts :
          updateWorkflowState(key[1], key[2], opts)
    \/ \E key \in SpanKeys, updates \in SpanUpdates :
          updateAISpan(key[1], key[2], updates)
    \/ \E thread \in ThreadArgs : saveThread(thread)
    \/ \E resource \in ResourceArgs : saveResource(resource)
    \/ \E key \in WorkflowKeys :
          persistWorkflowSnapshot(key[1], key[2], "res1", Snapshot(key[2]))
    \/ \E span \in SpanArgs : createAISpan(span)

SpecUpdates == Init /\ [][UpdatesNext]_vars

(***************************************************************************)
(* Paginated list operations: a count round trip, then a fetch round trip. *)
(***************************************************************************)
\* Mutant: the fetch without limit(perPage).
WindowUnlimited(ordered, offset, limit) == SubSeq(ordered, offset + 1, Len(ordered))

\* query.offset(offset).limit(limit).get(), and array.slice(offset, offset + limit)
Window(ordered, offset, limit) ==
    SubSeq(ordered, offset + 1, Min(offset + limit, Len(ordered)))

\* hasMore: totalCount > offset + perPage
HasMore(totalCount, offset, perPage) == totalCount > offset + perPage

\* The `==` filters a call puts on its query: the optional ones only when
\* the caller gives them.
Given(args, fields) == [f \in fields \cap DOMAIN args |-> args[f]]

\* The collection a paginated operation reads.
TableOf(op) ==
    CASE op = "getThreadsByResourceIdPaginated" -> TABLE_THREADS
      [] op = "getMessagesPaginated" -> TABLE_MESSAGES
      [] op = "getTracesPaginated" -> TABLE_TRACES
      [] op = "getEvals" -> TABLE_EVALS
      [] OTHER -> TABLE_SCORERS

ScoreOps ==
    {"getScoresByScorerId", "getScoresByRunId", "getScoresByEntityId",
     "getScoresBySpan"}

\* The documents the `where` filters of a paginated operation match.
Filtered(op, base, args) ==
    LET coll == base[TableOf(op)]
    IN  CASE op = "getThreadsByResourceIdPaginated" ->
                Matching(base, TABLE_THREADS, Given(args, {"resourceId"}))
          [] op = "getMessagesPaginated" ->
                {m \in MessagesOfThread(base, args.threadId) :
                    MatchesInclude(m, args.include)}
          [] op = "getTracesPaginated" ->
                {t \in DOMAIN coll :
                    "fromDate" \in DOMAIN args =>
                        /\ "timestamp" \in DOMAIN coll[t]
                        /\ coll[t]["timestamp"] >= args.fromDate}
          [] op = "getEvals" ->
                Matching(base, TABLE_EVALS, Given(args, {"agentName", "type"}))
          [] OTHER ->
                Matching(base, TABLE_SCORERS,
                         Given(args, {"scorerId", "runId", "entityId",
                                      "entityType", "source", "traceId", "spanId"}))

\* The field and direction a paginated operation orders by.
OrderField(op, args) ==
    CASE op = "getThreadsByResourceIdPaginated" -> args.orderBy
      [] op = "getTracesPaginated" -> "timestamp"
      [] OTHER -> "createdAt"

OrderDirection(op, args) ==
    CASE op = "getThreadsByResourceIdPaginated" ->
                IF args.sortDirection = "ASC" THEN "asc" ELSE "desc"
      [] op = "getMessagesPaginated" -> "asc"
      [] OTHER -> "desc"

\* The ordered query of a paginated operation: the ids of the documents it
\* matches, in the order it returns them.
QueryOf(op, base, args) ==
    OrderBy(base[TableOf(op)], Filtered(op, base, args),
            OrderField(op, args), OrderDirection(op, args))

Deserialize(op, data) ==
    CASE op = "getThreadsByResourceIdPaginated" -> deserializeThread(data)
      [] op = "getMessagesPaginated" -> deserializeMessage(data)
      [] op = "getTracesPaginated" -> deserializeTrace(data)
      [] op = "getEvals" -> deserializeEval(data)
      [] OTHER -> deserializeScore(data)

\* What the call returns once the fetch has answered; `ids` are the ids of
\* the documents of the snapshot, in order.
PageResult(op, base, args, totalCount) ==
    LET offset == (args.page - 1) * args.perPage
        docs == Window(QueryOf(op, base, args), offset, args.perPage)
    IN  [op |-> op, ok |-> TRUE, args |-> args,
         ids |-> docs,
         items |-> [k \in 1..Len(docs) |-> Deserialize(op, base[TableOf(op)][docs[k]])],
         page |-> args.page, perPage |-> args.perPage,
         total |-> totalCount,
         hasMore |-> HasMore(totalCount, offset, args.perPage)]

\* One round trip of a paginated call: query.count().get(), or the fetch and
\* the return. `pages` is the caller's list of the answers it was given.
PagedStep(op, args) ==
    /\ \/ /\ calls.pc = "idle"
          /\ calls' = [calls EXCEPT !.pc = "counted", !.op = op, !.args = args,
                                    !.totalCount = Len(QueryOf(op, db, args))]
          /\ ret' = [op |-> op, ok |-> TRUE, running |-> TRUE]
       \/ /\ calls.pc = "counted"
          /\ calls.op = op
          /\ calls.args = args
          /\ ret' = PageResult(op, db, args, calls.totalCount)
          /\ calls' = [calls EXCEPT !.pc = "idle", !.totalCount = 0,
                                    !.pages = Append(@, ret')]
    /\ UNCHANGED <<db, now, autoN, ignoreUndefinedProperties>>

getThreadsByResourceIdPaginated(args) == PagedStep("getThreadsByResourceIdPaginated", args)

getMessagesPaginated(args) == PagedStep("getMessagesPaginated", args)

getTracesPaginated(args) == PagedStep("getTracesPaginated", args)

getEvals(args) == PagedStep("getEvals", args)

getScoresByScorerId(args) == PagedStep("getScoresByScorerId", args)

getScoresByRunId(args) == PagedStep("getScoresByRunId", args)

getScoresByEntityId(args) == PagedStep("getScoresByEntityId", args)

getScoresBySpan(args) == PagedStep("getScoresBySpan", args)

\* The filters getAITracesPaginated hands to load().
SpanFilterKeys(args) == Given(args, {"name", "spanType", "entityId", "entityType"})

\* getAITracesPaginated reads through load(), which answers null or ONE
\* record: on null the page is cut from the empty list; on a record the
\* call throws at spans.slice, which a record does not have.
getAITracesPaginated(args) ==
    LET offset == (args.page - 1) * args.perPage
        spans == <<>>
    IN  /\ calls.pc = "idle"
        /\ IF LoadCandidates(db, TABLE_AI_SPANS, SpanFilterKeys(args)) = {}
           THEN ret' = [op |-> "getAITracesPaginated", ok |-> TRUE, args |-> args,
                        ids |-> <<>>,
                        items |-> Window(spans, offset, args.perPage),
                        page |-> args.page, perPage |-> args.perPage,
                        total |-> Len(spans),
                        hasMore |-> HasMore(Len(spans), offset, args.perPage)]
           ELSE ret' = [op |-> "getAITracesPaginated", ok |-> FALSE, args |-> args,
                        error |-> "TypeError: spans.slice is not a function"]
        /\ calls' = [calls EXCEPT !.op = "getAITracesPaginated", !.args = args,
                                  !.pages = Append(@, ret')]
        /\ UNCHANGED <<db, now, autoN, ignoreUndefinedProperties>>

PagedOps ==
    ScoreOps \cup {"getThreadsByResourceIdPaginated", "getMessagesPaginated",
                   "getTracesPaginated", "getEvals", "getAITracesPaginated"}

\* The arguments the model draws for the paginated calls.
PageArgs == {[page |-> a, perPage |-> b] : a \in 1..MaxPage, b \in 1..MaxPerPage}

WithPage(filters) == {Spread(f, pp) : f \in filters, pp \in PageArgs}

ThreadPageArgs ==
    WithPage({[resourceId |-> "R1", orderBy |-> "createdAt", sortDirection |-> "ASC"],
              [resourceId |-> "R1", orderBy |-> "updatedAt", sortDirection |-> "DESC"]})

MessagePageArgs ==
    WithPage({[threadId |-> "T1", include |-> <<>>],
              [threadId |-> "T1", include |-> <<"m1", "m2">>]})

TracePageArgs == WithPage({EmptyMap, [fromDate |-> 1]})

EvalPageArgs == WithPage({EmptyMap, [agentName |-> "agent"]})

ScorerIdPageArgs == WithPage({[scorerId |-> "scorer"]})

RunIdPageArgs == WithPage({[runId |-> "run1"]})

EntityIdPageArgs == WithPage({[entityId |-> "agent", entityType |-> "AGENT"]})

SpanPageArgs == WithPage({[traceId |-> "tr", spanId |-> "sp1"]})

AITracePageArgs == WithPage({EmptyMap, [name |-> "llm"]})

\* The documents the writers have stored when a paginated call starts: k
\* records per collection that the calls above match, written at times 0
\* and 1, and one record per collection that they do not match.
SeedTime(j) == j % 2

SeedId(prefix, j) == prefix \o ToString(j)

SeedColl(prefix, k, docs) ==
    [i \in {SeedId(prefix, j) : j \in 1..k} |->
        docs[CHOOSE j \in 1..k : SeedId(prefix, j) = i]]

SeedThread(j) ==
    serializeThread(ThreadData([id |-> SeedId("T", j), resourceId |-> "R1",
                                title |-> "first", metadata |-> EmptyMap],
                               SeedTime(j)))

SeedMessage(j) ==
    serializeMessage(MessageData(Message(SeedId("m", j), "T1"), SeedTime(j)))

SeedScore(j) ==
    serializeScore(ScoreData(Score("run1"), SeedId("auto", j), SeedTime(j)))

SeedTrace(j) ==
    serializeTrace([id |-> SeedId("tc", j), name |-> "op"], SeedTime(j))

SeedEval(j) ==
    serializeRecord([id |-> SeedId("ev", j), agentName |-> "agent",
                     createdAt |-> SeedTime(j)])

SeedSpan(j) ==
    serializeRecord(SpanData([id |-> SeedId("sp", j), traceId |-> "tr",
                              spanId |-> SeedId("sp", j), name |-> "llm"],
                             SeedTime(j)))

SeedDb(k) ==
    LET matched == [t \in Tables |->
                      CASE t = TABLE_THREADS -> SeedColl("T", k, [j \in 1..k |-> SeedThread(j)])
                        [] t = TABLE_MESSAGES -> SeedColl("m", k, [j \in 1..k |-> SeedMessage(j)])
                        [] t = TABLE_SCORERS -> SeedColl("auto", k, [j \in 1..k |-> SeedScore(j)])
                        [] t = TABLE_TRACES -> SeedColl("tc", k, [j \in 1..k |-> SeedTrace(j)])
                        [] t = TABLE_EVALS -> SeedColl("ev", k, [j \in 1..k |-> SeedEval(j)])
                        [] t = TABLE_AI_SPANS -> SeedColl("sp", k, [j \in 1..k |-> SeedSpan(j)])
                        [] OTHER -> EmptyMap]
        thread == [id |-> "T6", resourceId |-> "R2", title |-> "other"]
        score == ScoreData(Score("run2"), SeedId("auto", k + 1), 0)
    IN  PutDoc(PutDoc(ApplyBatch(matched, SaveMessagesBatch(<<Message("m6", "T2")>>, 0)),
                      TABLE_THREADS, "T6", serializeThread(ThreadData(thread, 0))),
               TABLE_SCORERS, score.id,
               serializeScore([score EXCEPT !.scorerId = "other", !.entityId = "other",
                                            !.spanId = "sp2"]))

EvalRecords == Records \cup {[agentName |-> "agent", createdAt |-> 1]}

\* One paginated call, and the write that may land before it, between its
\* count and its fetch, or after it.
IdleCall ==
    [pc |-> "idle", op |-> "", args |-> EmptyMap, totalCount |-> 0,
     pages |-> <<>>]

InitPage ==
    /\ \E k \in 0..MaxStored : db = SeedDb(k)
    /\ now = MaxClock - 1
    /\ autoN = MaxStored + 1
    /\ ignoreUndefinedProperties = FALSE
    /\ ret = [op |-> "init", ok |-> TRUE]
    /\ calls = IdleCall

\* The caller makes one paginated call: it starts one only while it holds
\* no answer.
PagedNext ==
    \/ \E args \in ThreadPageArgs :
          calls.pages = <<>> /\ getThreadsByResourceIdPaginated(args)
    \/ \E args \in MessagePageArgs : calls.pages = <<>> /\ getMessagesPaginated(args)
    \/ \E args \in TracePageArgs : calls.pages = <<>> /\ getTracesPaginated(args)
    \/ \E args \in EvalPageArgs : calls.pages = <<>> /\ getEvals(args)
    \/ \E args \in ScorerIdPageArgs : calls.pages = <<>> /\ getScoresByScorerId(args)
    \/ \E args \in RunIdPageArgs : calls.pages = <<>> /\ getScoresByRunId(args)
    \/ \E args \in EntityIdPageArgs : calls.pages = <<>> /\ getScoresByEntityId(args)
    \/ \E args \in SpanPageArgs : calls.pages = <<>> /\ getScoresBySpan(args)
    \/ \E args \in AITracePageArgs : calls.pages = <<>> /\ getAITracesPaginated(args)

PageWritesNext ==
    \/ \E thread \in ThreadArgs : saveThread(thread)
    \/ \E threadId \in ThreadIds : deleteThread(threadId)
    \/ \E messages \in MessageLists : saveMessages(messages)
    \/ \E messageIds \in MessageIdLists : deleteMessages(messageIds)
    \/ saveScore(Score("run1"))
    \/ \E records \in TraceLists : batchTraceInsert(records)
    \/ \E record \in EvalRecords : insert(TABLE_EVALS, record)
    \/ \E span \in SpanArgs : createAISpan(span)

PageNext == PagedNext \/ PageWritesNext

SpecPage == InitPage /\ [][PageNext]_vars

\* A scan: the caller asks for pages 1, 2, .. of one operation with one
\* filter set and page size, as many as the matching records need, and no
\* write lands in between.
ArgsFor(op) ==
    CASE op = "getThreadsByResourceIdPaginated" -> ThreadPageArgs
      [] op = "getMessagesPaginated" -> MessagePageArgs
      [] op = "getTracesPaginated" -> TracePageArgs
      [] op = "getEvals" -> EvalPageArgs
      [] op = "getScoresByScorerId" -> ScorerIdPageArgs
      [] op = "getScoresByRunId" -> RunIdPageArgs
      [] op = "getScoresByEntityId" -> EntityIdPageArgs
      [] op = "getScoresBySpan" -> SpanPageArgs
      [] OTHER -> AITracePageArgs

\* How many stored records the filters of a call match.
MatchCount(op, base, args) ==
    IF op = "getAITracesPaginated"
    THEN Cardinality(Matching(base, TABLE_AI_SPANS, SpanFilterKeys(args)))
    ELSE Cardinality(Filtered(op, base, args))

InitScan ==
    /\ \E k \in 0..MaxStored : db = SeedDb(k)
    /\ now = MaxClock - 1
    /\ autoN = MaxStored + 1
    /\ ignoreUndefinedProperties = FALSE
    /\ ret = [op |-> "init", ok |-> TRUE]
    /\ \E op \in PagedOps : \E args \in ArgsFor(op) :
          /\ args.page = 1
          /\ calls = [IdleCall EXCEPT !.op = op, !.args = args]

ScanArgs == [calls.args EXCEPT !.page = Len(calls.pages) + 1]

Scanning(op) ==
    /\ calls.op = op
    /\ Len(calls.pages) < Ceil(MatchCount(op, db, calls.args), calls.args.perPage)

ScanNext ==
    \/ Scanning("getThreadsByResourceIdPaginated")
          /\ getThreadsByResourceIdPaginated(ScanArgs)
    \/ Scanning("getMessagesPaginated") /\ getMessagesPaginated(ScanArgs)
    \/ Scanning("getTracesPaginated") /\ getTracesPaginated(ScanArgs)
    \/ Scanning("getEvals") /\ getEvals(ScanArgs)
    \/ Scanning("getScoresByScorerId") /\ getScoresByScorerId(ScanArgs)
    \/ Scanning("getScoresByRunId") /\ getScoresByRunId(ScanArgs)
    \/ Scanning("getScoresByEntityId") /\ getScoresByEntityId(ScanArgs)
    \/ Scanning("getScoresBySpan") /\ getScoresBySpan(ScanArgs)
    \/ Scanning("getAITracesPaginated") /\ getAITracesPaginated(ScanArgs)

SpecScan == InitScan /\ [][ScanNext]_vars

(***************************************************************************)
(* Paginated calls that leave page or perPage out.                         *)
(***************************************************************************)
\* const { page = 1, perPage = 20 } = ...
DefaultPage == 1
DefaultPerPage == 20

\* The arguments as the handler destructures them: the defaults stand in
\* for what the caller left out. getTracesPaginated destructures page and
\* perPage without defaults.
Destructured(op, args) ==
    CASE op = "getTracesPaginated" -> args
      [] op = "getThreadsByResourceIdPaginated" ->
            Spread([page |-> DefaultPage, perPage |-> DefaultPerPage,
                    orderBy |-> "createdAt", sortDirection |-> "ASC"], args)
      [] OTHER -> Spread([page |-> DefaultPage, perPage |-> DefaultPerPage], args)

\* One round trip of the call the caller asked for. With page or perPage
\* undefined, (page - 1) * perPage is NaN and query.offset(NaN) throws.
PagedCall(op, request) ==
    LET args == Destructured(op, request)
    IN  IF {"page", "perPage"} \subseteq DOMAIN args
        THEN IF op = "getAITracesPaginated"
             THEN getAITracesPaginated(args)
             ELSE PagedStep(op, args)
        ELSE /\ calls.pc = "idle"
             /\ ret' = [op |-> op, ok |-> FALSE, args |-> request,
                        error |-> "Value for argument \"offset\" is not a valid integer."]
             /\ calls' = [calls EXCEPT !.op = op, !.args = request,
                                       !.pages = Append(@, ret')]
             /\ UNCHANGED <<db, now, autoN, ignoreUndefinedProperties>>

\* The arguments of a call without the fields the caller leaves out.
Without(args, fields) == [f \in DOMAIN args \ fields |-> args[f]]

InitDefaults ==
    /\ \E k \in {0, MaxStored, MaxListed} : db = SeedDb(k)
    /\ now = MaxClock - 1
    /\ autoN = MaxListed + 1
    /\ ignoreUndefinedProperties = FALSE
    /\ ret = [op |-> "init", ok |-> TRUE]
    /\ \E op \in PagedOps : \E args \in ArgsFor(op) :
       \E left \in SUBSET {"page", "perPage", "orderBy", "sortDirection"} :
          calls = Spread(IdleCall, [request |-> [op |-> op, args |-> Without(args, left)]])

DefaultsNext ==
    /\ calls.pages = <<>>
    /\ PagedCall(calls.request.op, calls.request.args)

SpecDefaults == InitDefaults /\ [][DefaultsNext]_vars

(***************************************************************************)
(* The chunked batch loops, one store round trip at a time: batchInsert,   *)
(* batchTraceInsert and deleteMessages on an input of n records. Record k  *)
(* of the input is written k; `stored` is the set of records the           *)
(* collection holds (0 is a record the input does not name).               *)
(***************************************************************************)
BatchOps == {"batchInsert", "batchTraceInsert", "deleteMessages"}

InputRecords(n) == [k \in 1..n |-> k]

SeqRange(items) == {items[k] : k \in 1..Len(items)}

\* The call once it has filled a batch from position i and submitted it.
Submitted(call) ==
    LET batch == Slice(InputRecords(call.n), call.i, batchSize)
    IN  [call EXCEPT !.pc = "await", !.submitted = Append(@, batch)]

\* The collection once the submitted batch is applied.
Applied(call) ==
    LET batch == call.submitted[Len(call.submitted)]
    IN  IF call.op \in {"deleteMessages", "deleteThread"}
        THEN call.stored \ SeqRange(batch)
        ELSE call.stored \cup SeqRange(batch)

\* await batch.commit() resolved: the loop goes on with i += batchSize.
Committed(call) ==
    [call EXCEPT !.pc = "loop", !.i = @ + batchSize, !.finished = @ + 1,
                 !.stored = Applied(call)]

\* Mutant: a rejected commit is swallowed and the loop goes on.
RejectedAndSwallowed(call) ==
    [call EXCEPT !.pc = "loop", !.i = @ + batchSize, !.finished = @ + 1,
                 !.rejected = @ \cup {Len(call.submitted)}]

\* await batch.commit() rejected: the store applies nothing of the batch
\* (`rejected` is the store's record of it) and the error leaves the loop
\* and the call.
Rejected(call) ==
    [call EXCEPT !.pc = "failed", !.finished = @ + 1,
                 !.error = Len(call.submitted),
                 !.rejected = @ \cup {Len(call.submitted)}]

\* One step of a chunked loop; `guarded` says whether the handler returns
\* early on an empty input.
LoopStep(op, guarded) ==
    /\ \/ /\ calls.pc = "start"
          /\ calls' = [calls EXCEPT !.pc = IF guarded /\ calls.n = 0
                                           THEN "done" ELSE "loop"]
       \/ /\ calls.pc = "loop"
          /\ calls.i < calls.n
          /\ calls' = Submitted(calls)
       \/ /\ calls.pc = "loop"
          /\ calls.i >= calls.n
          /\ calls' = [calls EXCEPT !.pc = "done"]
       \/ /\ calls.pc = "await"
          /\ calls' = Committed(calls)
       \/ /\ calls.pc = "await"
          /\ calls' = Rejected(calls)
    /\ ret' = IF calls'.pc = "done" THEN [op |-> op, ok |-> TRUE]
              ELSE IF calls'.pc = "failed"
              THEN [op |-> op, ok |-> FALSE, error |-> calls'.error]
              ELSE ret
    /\ UNCHANGED <<db, now, autoN, ignoreUndefinedProperties>>

batchInsertStep ==
    /\ calls.op = "batchInsert"
    /\ LoopStep("batchInsert", FALSE)

batchTraceInsertStep ==
    /\ calls.op = "batchTraceInsert"
    /\ LoopStep("batchTraceInsert", TRUE)

deleteMessagesStep ==
    /\ calls.op = "deleteMessages"
    /\ LoopStep("deleteMessages", TRUE)

InitBatch ==
    /\ db = EmptyDb
    /\ now = 0
    /\ autoN = 0
    /\ ignoreUndefinedProperties = FALSE
    /\ ret = [op |-> "init", ok |-> TRUE]
    /\ \E op \in BatchOps, n \in 0..MaxRecords :
          calls = [op |-> op, n |-> n, i |-> 0, pc |-> "start",
                   submitted |-> <<>>, finished |-> 0, error |-> 0,
                   rejected |-> {},
                   stored |-> IF op = "deleteMessages" THEN 0..n ELSE {0}]

BatchNext == batchInsertStep \/ batchTraceInsertStep \/ deleteMessagesStep

SpecBatch == InitBatch /\ [][BatchNext]_vars

(***************************************************************************)
(* Two concurrent updates of one record, one store round trip at a time.   *)
(* calls[c] holds caller c's position and locals; `delta` is the fields    *)
(* and values its write carried and `committed` the time of that write.    *)
(***************************************************************************)
Callers == {1, 2}

\* One round trip of an update that reads the document, writes `updates`
\* with docRef.update() and reads the document back. `missing` is where the
\* call ends when the first read finds no document.
FieldUpdateStep(c, coll, id, updates, missing) ==
    LET call == calls[c]
    IN  /\ call.pc \in {"get", "update", "reread"}
        /\ IF call.pc = "get"
           THEN /\ calls' = [calls EXCEPT ![c].pc =
                                IF Exists(coll, id) THEN "update" ELSE missing]
                /\ UNCHANGED <<db, now>>
           ELSE IF call.pc = "update"
           THEN /\ db' = PutDoc(db, coll, id, Update(db[coll][id], updates))
                /\ now' = now + 1
                /\ calls' = [calls EXCEPT ![c].pc = "reread", ![c].delta = updates,
                                          ![c].committed = now]
           ELSE /\ calls' = [calls EXCEPT ![c].pc = "done", ![c].local = db[coll][id]]
                /\ UNCHANGED <<db, now>>
        /\ ret' = IF calls'[c].pc \in {"done", "failed", "undefined"}
                  THEN [op |-> call.op, ok |-> calls'[c].pc # "failed", caller |-> c]
                  ELSE ret
        /\ UNCHANGED <<autoN, ignoreUndefinedProperties>>

updateThreadStep(c) ==
    /\ calls[c].op = "updateThread"
    /\ FieldUpdateStep(c, TABLE_THREADS, calls[c].args.id,
                       ThreadUpdates(calls[c].args.title, calls[c].args.metadata, now),
                       "failed")

updateResourceStep(c) ==
    /\ calls[c].op = "updateResource"
    /\ FieldUpdateStep(c, TABLE_RESOURCES, calls[c].args.resourceId,
                       ResourceUpdates(calls[c].args, now), "failed")

updateWorkflowStateStep(c) ==
    /\ calls[c].op = "updateWorkflowState"
    /\ FieldUpdateStep(c, TABLE_WORKFLOW_SNAPSHOT,
                       SnapshotDocId(calls[c].args.workflowName, calls[c].args.runId),
                       StateUpdates(calls[c].args.opts, now), "undefined")

\* updateAISpan: operations.load(), then operations.insert() of the loaded
\* record overlaid with the updates.
updateAISpanStep(c) ==
    LET call == calls[c]
        spanId == call.args.spanId
        traceId == call.args.traceId
        found == LoadCandidates(db, TABLE_AI_SPANS,
                                [spanId |-> spanId, traceId |-> traceId])
        updatedSpan == UpdatedSpan(call.local, call.args.updates, spanId, traceId, now)
        after == Inserted(db, autoN, TABLE_AI_SPANS, updatedSpan)
    IN  /\ call.op = "updateAISpan"
        /\ call.pc \in {"get", "insert"}
        /\ IF call.pc = "get"
           THEN /\ IF found = {}
                   THEN calls' = [calls EXCEPT ![c].pc = "failed"]
                   ELSE \E source \in found :
                           calls' = [calls EXCEPT
                                        ![c].pc = "insert",
                                        ![c].local =
                                            deserializeRecord(db[TABLE_AI_SPANS][source])]
                /\ UNCHANGED <<db, now, autoN>>
           ELSE /\ db' = after.db
                /\ autoN' = after.autoN
                /\ now' = now + 1
                /\ calls' = [calls EXCEPT
                                ![c].pc = "done", ![c].committed = now,
                                ![c].delta =
                                    Spread(call.args.updates,
                                           [spanId |-> spanId, traceId |-> traceId,
                                            updatedAt |-> now])]
        /\ ret' = IF calls'[c].pc \in {"done", "failed"}
                  THEN [op |-> call.op, ok |-> calls'[c].pc # "failed", caller |-> c]
                  ELSE ret
        /\ UNCHANGED ignoreUndefinedProperties

\* The record the two callers update, stored by the call that creates it.
RaceDb(span) ==
    LET thread == [id |-> "T1", resourceId |-> "R1", title |-> "first",
                   metadata |-> EmptyMap]
        resource == [id |-> "R1", workingMemory |-> "notes"]
        id == SnapshotDocId("a", "c")
    IN  PutDoc(PutDoc(PutDoc(
            Inserted(EmptyDb, 0, TABLE_AI_SPANS, SpanData(span, 0)).db,
            TABLE_THREADS, "T1", serializeThread(ThreadData(thread, 0))),
            TABLE_RESOURCES, "R1", serializeResource(ResourceData(resource, 0))),
            TABLE_WORKFLOW_SNAPSHOT, id, SnapshotData("a", "res1", Snapshot("c"), 0))

RaceArgs(op) ==
    CASE op = "updateThread" ->
            {[id |-> "T1", title |-> "second", metadata |-> ("k" :> 1)],
             [id |-> "T1", title |-> "third", metadata |-> EmptyMap]}
      [] op = "updateResource" ->
            {Spread([resourceId |-> "R1"], u) : u \in ResourceUpdateArgs}
      [] op = "updateWorkflowState" ->
            {[workflowName |-> "a", runId |-> "c", opts |-> o] : o \in StateOpts}
      [] OTHER ->
            {[spanId |-> "sp1", traceId |-> "tr", updates |-> u] : u \in SpanUpdates}

RaceOps == {"updateThread", "updateResource", "updateWorkflowState", "updateAISpan"}

InitRace ==
    /\ \E span \in SpanArgs :
          /\ db = RaceDb(span)
          /\ autoN = Inserted(EmptyDb, 0, TABLE_AI_SPANS, SpanData(span, 0)).autoN
    /\ now = 1
    /\ ignoreUndefinedProperties = FALSE
    /\ ret = [op |-> "init", ok |-> TRUE]
    /\ \E op \in RaceOps : \E a1, a2 \in RaceArgs(op) :
          calls = [c \in Callers |->
                      [op |-> op, args |-> IF c = 1 THEN a1 ELSE a2, pc |-> "get",
                       local |-> EmptyMap, delta |-> EmptyMap, committed |-> 0]]

RaceNext ==
    \E c \in Callers :
        \/ updateThreadStep(c)
        \/ updateResourceStep(c)
        \/ updateWorkflowStateStep(c)
        \/ updateAISpanStep(c)

SpecRace == InitRace /\ [][RaceNext]_vars

(***************************************************************************)
(* Two concurrent updateWorkflowResults calls on one (workflowName, runId), *)
(* one store round trip at a time: docRef.get(), then docRef.set(.., {merge: *)
(* true}) of the results map built from what the get answered.             *)
(***************************************************************************)
ResultRunning == [status |-> "running"]

\* The results map the snapshot holds when the two calls start.
PriorResults == {EmptyMap, "s1" :> ResultRunning, "s1" :> ResultSuspended}

\* The object updateWorkflowResults hands to set().
ResultsData(workflowName, runId, results, runtimeContext, time) ==
    [workflowName |-> workflowName, runId |-> runId, results |-> results,
     runtimeContext |-> runtimeContext, updatedAt |-> time]

updateWorkflowResultsStep(c) ==
    LET call == calls[c]
        id == SnapshotDocId(call.args.workflowName, call.args.runId)
        results == WithStepResult(call.local, call.args.stepId, call.args.result)
        data == ResultsData(call.args.workflowName, call.args.runId, results,
                            EmptyMap, now)
    IN  /\ call.op = "updateWorkflowResults"
        /\ call.pc \in {"get", "set"}
        /\ IF call.pc = "get"
           THEN /\ calls' = [calls EXCEPT ![c].pc = "set",
                                          ![c].local = StoredResults(id)]
                /\ UNCHANGED <<db, now, ret>>
           ELSE /\ db' = PutDoc(db, TABLE_WORKFLOW_SNAPSHOT, id,
                                MergedInto(TABLE_WORKFLOW_SNAPSHOT, id, data))
                /\ now' = now + 1
                /\ calls' = [calls EXCEPT ![c].pc = "done", ![c].committed = now]
                /\ ret' = [op |-> call.op, ok |-> TRUE, caller |-> c,
                           value |-> results]
        /\ UNCHANGED <<autoN, ignoreUndefinedProperties>>

InitResults ==
    /\ \E prior \in PriorResults :
          db = IF prior = EmptyMap
               THEN EmptyDb
               ELSE PutDoc(EmptyDb, TABLE_WORKFLOW_SNAPSHOT, SnapshotDocId("a", "c"),
                           ResultsData("a", "c", prior, EmptyMap, 0))
    /\ now = 1
    /\ autoN = 1
    /\ ignoreUndefinedProperties = FALSE
    /\ ret = [op |-> "init", ok |-> TRUE]
    /\ \E s1, s2 \in StepIds : \E r1, r2 \in StepResults :
          calls = [c \in Callers |->
                      [op |-> "updateWorkflowResults",
                       args |-> [workflowName |-> "a", runId |-> "c",
                                 stepId |-> IF c = 1 THEN s1 ELSE s2,
                                 result |-> IF c = 1 THEN r1 ELSE r2],
                       pc |-> "get", local |-> EmptyMap, committed |-> 0]]

ResultsNext == \E c \in Callers : updateWorkflowResultsStep(c)

SpecResults == InitResults /\ [][ResultsNext]_vars

(***************************************************************************)
(* getMessagesById, one `in` query at a time.                              *)
(***************************************************************************)
\* const batchSize = 10 (the limit of an `in` filter)
inBatchSize == 10

\* Mutant: an `in` filter that matches its first value only.
InQueryFirst(base, batchIds) ==
    {d \in DOMAIN base[TABLE_MESSAGES] :
        /\ "id" \in DOMAIN base[TABLE_MESSAGES][d]
        /\ base[TABLE_MESSAGES][d]["id"] = batchIds[1]}

\* collection(TABLE_MESSAGES).where("id", "in", batchIds): the documents
\* whose field `id` is one of the values.
InQuery(base, batchIds) ==
    {d \in DOMAIN base[TABLE_MESSAGES] :
        /\ "id" \in DOMAIN base[TABLE_MESSAGES][d]
        /\ base[TABLE_MESSAGES][d]["id"] \in SeqRange(batchIds)}

\* snapshot.docs.map(doc => deserializeMessage(doc.data()))
BatchMessages(base, batchIds) ==
    LET docs == SeqOfSet(InQuery(base, batchIds))
    IN  [k \in 1..Len(docs) |-> deserializeMessage(base[TABLE_MESSAGES][docs[k]])]

getMessagesByIdStep ==
    LET batchIds == Slice(calls.messageIds, calls.i, inBatchSize)
    IN  /\ calls.op = "getMessagesById"
        /\ \/ /\ calls.pc = "start"
              /\ calls' = [calls EXCEPT !.pc = IF Len(calls.messageIds) = 0
                                               THEN "done" ELSE "loop"]
           \/ /\ calls.pc = "loop"
              /\ calls.i < Len(calls.messageIds)
              /\ calls' = [calls EXCEPT
                              !.queries = Append(@, batchIds),
                              !.messages = @ \o BatchMessages(db, batchIds),
                              !.i = @ + inBatchSize]
           \/ /\ calls.pc = "loop"
              /\ calls.i >= Len(calls.messageIds)
              /\ calls' = [calls EXCEPT !.pc = "done"]
        /\ ret' = IF calls'.pc = "done"
                  THEN [op |-> "getMessagesById", ok |-> TRUE,
                        value |-> calls'.messages]
                  ELSE ret
        /\ UNCHANGED <<db, now, autoN, ignoreUndefinedProperties>>

\* The id lists of the calls: n ids, distinct, or repeating after `period`.
MessageIdList(n, period) == [k \in 1..n |-> SeedId("m", ((k - 1) % period) + 1)]

\* The messages saveMessages stored: those numbered by `numbers`, and one
\* (m0) that no call asks for.
StoredMessages(numbers) ==
    LET batch == [k \in 0..MaxIds |->
                     SetOp(TABLE_MESSAGES, SeedId("m", k),
                           serializeMessage(MessageData(Message(SeedId("m", k), "T1"), 0)))]
    IN  ApplyBatch(EmptyDb, SeqOfSet({batch[k] : k \in numbers \cup {0}}))

InitByIds ==
    /\ \E step \in 1..3 : db = StoredMessages({k \in 1..MaxIds : k % step = 0})
    /\ now = 1
    /\ autoN = 1
    /\ ignoreUndefinedProperties = FALSE
    /\ ret = [op |-> "init", ok |-> TRUE]
    /\ \E n \in 0..MaxIds, period \in {inBatchSize + 1, MaxIds + 1} :
          calls = [op |-> "getMessagesById", messageIds |-> MessageIdList(n, period),
                   i |-> 0, pc |-> "start", queries |-> <<>>, messages |-> <<>>]

ByIdsNext == getMessagesByIdStep

SpecByIds == InitByIds /\ [][ByIdsNext]_vars

(***************************************************************************)
(* Lookups: one read round trip each; none of them writes.                 *)
(***************************************************************************)
\* A lookup's answer: `value` on success, `error` when it throws.
Answered(op, args, value) ==
    /\ ret' = [op |-> op, ok |-> TRUE, args |-> args, value |-> value]
    /\ UNCHANGED <<db, now, autoN, ignoreUndefinedProperties, calls>>

Thrown(op, args, error) ==
    /\ ret' = [op |-> op, ok |-> FALSE, args |-> args, error |-> error]
    /\ UNCHANGED <<db, now, autoN, ignoreUndefinedProperties, calls>>

getThreadById(threadId) ==
    /\ TRUE
    /\ Answered("getThreadById", [threadId |-> threadId], GetThreadById(db, threadId))

getResourceById(resourceId) ==
    /\ TRUE
    /\ Answered("getResourceById", [resourceId |-> resourceId],
                IF Exists(TABLE_RESOURCES, resourceId)
                THEN deserializeResource(db[TABLE_RESOURCES][resourceId])
                ELSE NULL)

getScoreById(id) ==
    /\ TRUE
    /\ Answered("getScoreById", [id |-> id],
                IF Exists(TABLE_SCORERS, id)
                THEN deserializeScore(db[TABLE_SCORERS][id])
                ELSE NULL)

\* operations.load(): null when nothing matches, else the one record read.
load(op, args, tableName, keys) ==
    LET found == LoadCandidates(db, tableName, keys)
    IN  IF found = {}
        THEN Answered(op, args, NULL)
        ELSE \E source \in found :
                Answered(op, args, deserializeRecord(db[tableName][source]))

\* getAITrace reads the traces collection by the field traceId.
getAITrace(traceId) ==
    /\ TRUE
    /\ load("getAITrace", [traceId |-> traceId], TABLE_TRACES, [traceId |-> traceId])

\* What loadWorkflowSnapshot returns from a database.
LoadedSnapshot(base, workflowName, runId) ==
    LET id == SnapshotDocId(workflowName, runId)
    IN  IF id \in DOMAIN base[TABLE_WORKFLOW_SNAPSHOT]
        THEN deserializeWorkflowRunState(base[TABLE_WORKFLOW_SNAPSHOT][id])
        ELSE NULL

loadWorkflowSnapshot(workflowName, runId) ==
    /\ TRUE
    /\ Answered("loadWorkflowSnapshot",
                [workflowName |-> workflowName, runId |-> runId],
                LoadedSnapshot(db, workflowName, runId))

\* deserializeWorkflowRun reads the run state from the field `snapshot` and
\* throws when the document has none.
deserializeWorkflowRun(data) ==
    [runId |-> FieldOr(data, "runId", UNDEF),
     workflowName |-> FieldOr(data, "workflowName", UNDEF),
     resourceId |-> FieldOr(data, "resourceId", UNDEF),
     snapshot |-> deserializeWorkflowRunState(data["snapshot"]),
     createdAt |-> FieldOr(data, "createdAt", UNDEF),
     updatedAt |-> FieldOr(data, "updatedAt", UNDEF)]

\* The documents getWorkflowRunById may read: the document of the key when
\* workflowName is given, else any document whose runId matches.
RunCandidates(base, runId, workflowName) ==
    IF workflowName # UNDEF
    THEN {SnapshotDocId(workflowName, runId)} \cap DOMAIN base[TABLE_WORKFLOW_SNAPSHOT]
    ELSE Matching(base, TABLE_WORKFLOW_SNAPSHOT, [runId |-> runId])

getWorkflowRunById(runId, workflowName) ==
    LET found == RunCandidates(db, runId, workflowName)
        args == [runId |-> runId, workflowName |-> workflowName]
    IN  IF found = {}
        THEN Answered("getWorkflowRunById", args, NULL)
        ELSE \E source \in found :
                LET data == db[TABLE_WORKFLOW_SNAPSHOT][source]
                IN  IF "snapshot" \in DOMAIN data
                    THEN Answered("getWorkflowRunById", args, deserializeWorkflowRun(data))
                    ELSE Thrown("getWorkflowRunById", args,
                                "Workflow run state data is undefined")

LookupOps ==
    {"getThreadById", "getResourceById", "getScoreById", "getAITrace",
     "loadWorkflowSnapshot", "getWorkflowRunById"}

\* Whether the document a lookup names is not stored.
Missing(base, op, args) ==
    CASE op = "getThreadById" -> args.threadId \notin DOMAIN base[TABLE_THREADS]
      [] op = "getResourceById" -> args.resourceId \notin DOMAIN base[TABLE_RESOURCES]
      [] op = "getScoreById" -> args.id \notin DOMAIN base[TABLE_SCORERS]
      [] op = "getAITrace" ->
            \A d \in DOMAIN base[TABLE_TRACES] :
                FieldOr(base[TABLE_TRACES][d], "traceId", UNDEF) # args.traceId
      [] op = "loadWorkflowSnapshot" ->
            SnapshotDocId(args.workflowName, args.runId)
                \notin DOMAIN base[TABLE_WORKFLOW_SNAPSHOT]
      [] op = "getWorkflowRunById" ->
            IF args.workflowName # UNDEF
            THEN SnapshotDocId(args.workflowName, args.runId)
                     \notin DOMAIN base[TABLE_WORKFLOW_SNAPSHOT]
            ELSE \A d \in DOMAIN base[TABLE_WORKFLOW_SNAPSHOT] :
                    FieldOr(base[TABLE_WORKFLOW_SNAPSHOT][d], "runId", UNDEF) # args.runId

LookupsNext ==
    \/ \E threadId \in ThreadIds : getThreadById(threadId)
    \/ \E resourceId \in ResourceIds : getResourceById(resourceId)
    \/ \E k \in 0..1 : getScoreById(AutoId(k))
    \/ \E traceId \in {"tr", "tr2"} : getAITrace(traceId)
    \/ \E key \in WorkflowKeys : loadWorkflowSnapshot(key[1], key[2])
    \/ \E key \in WorkflowKeys, named \in BOOLEAN :
          getWorkflowRunById(key[2], IF named THEN key[1] ELSE UNDEF)
    \/ \E thread \in ThreadArgs : saveThread(thread)
    \/ \E resource \in ResourceArgs : saveResource(resource)
    \/ saveScore(Score("run1"))
    \/ batchTraceInsert(<<[id |-> "t1", traceId |-> "tr", name |-> "op"]>>)
    \/ \E key \in WorkflowKeys :
          persistWorkflowSnapshot(key[1], key[2], "res1", Snapshot(key[2]))

SpecLookups == Init /\ [][LookupsNext]_vars

(***************************************************************************)
(* deleteThread, one store round trip at a time: the delete of the thread  *)
(* document, the query for its messages, the commit of the delete batch.   *)
(* Any of the three round trips may fail, and a failure leaves the call.   *)
(***************************************************************************)
\* Mutant: deleteThread without the delete of the thread document.
ThreadKept(base, threadId) == base

\* await collection(TABLE_THREADS).doc(threadId).delete()
ThreadDeleted(base, threadId) == RemoveDoc(base, TABLE_THREADS, threadId)

deleteThreadStep ==
    LET threadId == calls.threadId
        batch == ThreadMessagesBatch(db, threadId)
    IN  /\ calls.op = "deleteThread"
        /\ \/ /\ calls.pc = "start"
              /\ db' = ThreadDeleted(db, threadId)
              /\ calls' = [calls EXCEPT !.pc = "query"]
           \/ /\ calls.pc = "query"
              /\ calls' = [calls EXCEPT !.pc = IF Len(batch) > 0 THEN "commit" ELSE "done",
                                        !.batch = batch]
              /\ UNCHANGED db
           \/ /\ calls.pc = "commit"
              /\ CommitAccepted(calls.batch)
              /\ db' = ApplyBatch(db, calls.batch)
              /\ calls' = [calls EXCEPT !.pc = "done"]
           \/ /\ calls.pc \in {"start", "query", "commit"}
              /\ calls' = [calls EXCEPT !.pc = "failed", !.failedAt = calls.pc]
              /\ UNCHANGED db
        /\ ret' = IF calls'.pc = "done"
                  THEN [op |-> "deleteThread", ok |-> TRUE, id |-> threadId]
                  ELSE IF calls'.pc = "failed"
                  THEN [op |-> "deleteThread", ok |-> FALSE, id |-> threadId,
                        error |-> calls'.failedAt]
                  ELSE ret
        /\ UNCHANGED <<now, autoN, ignoreUndefinedProperties>>

\* Threads T1 and T2 with k1 and k2 messages, as saveThread and saveMessages
\* store them.
ThreadsWithMessages(k1, k2) ==
    LET thread(id) == [id |-> id, resourceId |-> "R1", title |-> "first",
                       metadata |-> EmptyMap]
        threads == PutDoc(PutDoc(EmptyDb, TABLE_THREADS, "T1",
                                 serializeThread(ThreadData(thread("T1"), 0))),
                          TABLE_THREADS, "T2",
                          serializeThread(ThreadData(thread("T2"), 0)))
        messages == [j \in 1..(k1 + k2) |->
                        Message(SeedId("m", j), IF j <= k1 THEN "T1" ELSE "T2")]
    IN  ApplyBatch(threads, SaveMessagesBatch(messages, 0))

InitCascade ==
    /\ \E k1, k2 \in 0..MaxStored, threadId \in ThreadIds \cup {"T3"} :
          /\ db = ThreadsWithMessages(k1, k2)
          /\ calls = [op |-> "deleteThread", threadId |-> threadId, pc |-> "start",
                      batch |-> <<>>, failedAt |-> "", before |-> db]
    /\ now = 1
    /\ autoN = 0
    /\ ignoreUndefinedProperties = FALSE
    /\ ret = [op |-> "init", ok |-> TRUE]

CascadeNext == deleteThreadStep

SpecCascade == InitCascade /\ [][CascadeNext]_vars

(***************************************************************************)
(* Inserts of records with and without an id.                              *)
(***************************************************************************)
InsertRecords ==
    {[id |-> "e1", agentName |-> "agent"],
     [id |-> "e1", agentName |-> "other", score |-> 1],
     [agentName |-> "agent"]}

InsertLists ==
    {<<[id |-> "e1", agentName |-> "agent"], [agentName |-> "agent"],
       [id |-> "e1", agentName |-> "other", score |-> 1]>>,
     <<[agentName |-> "agent"], [agentName |-> "agent"]>>,
     <<[id |-> "e2", agentName |-> "agent"], [id |-> "e1", agentName |-> "agent"]>>}

InsertsNext ==
    \/ \E record \in InsertRecords : insert(TABLE_EVALS, record)
    \/ \E records \in InsertLists : batchInsert(TABLE_EVALS, records)
    \/ \E records \in InsertLists : batchTraceInsert(records)

SpecInserts == Init /\ [][InsertsNext]_vars

(***************************************************************************)
(* The record codec value by value: serializeRecord, what Firestore stores *)
(* and answers, deserializeRecord. A value carries its JavaScript type;    *)
(* a date counts clock ticks, TicksPerSecond of them to the second.        *)
(***************************************************************************)
JsString(s) == [type |-> "string", str |-> s]

JsNumber(n) == [type |-> "number", num |-> n]

JsDate(ticks) == [type |-> "date", ticks |-> ticks]

JsNull == [type |-> "null"]

JsUndefined == [type |-> "undefined"]

JsObject(fields) == [type |-> "object", fields |-> fields]

\* Date.prototype.toJSON: the ISO string, which keeps the milliseconds.
toISOString(ticks) == "iso" \o ToString(ticks)

\* JSON.parse(JSON.stringify(value)) of a plain object: a date becomes its
\* ISO string, an undefined property is left out.
RECURSIVE JsonRoundTrip(_)
JsonRoundTrip(value) ==
    CASE value.type = "date" -> JsString(toISOString(value.ticks))
      [] value.type = "object" ->
            JsObject([k \in {j \in DOMAIN value.fields :
                                value.fields[j].type # "undefined"}
                        |-> JsonRoundTrip(value.fields[k])])
      [] OTHER -> value

\* The branches of the loop of serializeRecord.
serializeValue(value) ==
    CASE value.type = "date" -> value
      [] value.type \in {"null", "undefined"} -> JsNull
      [] value.type = "object" -> JsonRoundTrip(value)
      [] OTHER -> value

\* What doc.data() answers for a value that set() stored: a Date is stored
\* as a Timestamp, with its seconds and the rest below the second.
RECURSIVE FirestoreValue(_)
FirestoreValue(value) ==
    CASE value.type = "date" ->
            [type |-> "timestamp", seconds |-> value.ticks \div TicksPerSecond,
             below |-> value.ticks % TicksPerSecond]
      [] value.type = "object" ->
            JsObject([k \in DOMAIN value.fields |-> FirestoreValue(value.fields[k])])
      [] OTHER -> value

\* The branches of the loop of deserializeRecord: an object with a property
\* _seconds is read as new Date(value._seconds * 1000).
deserializeValue(value) ==
    CASE value.type = "timestamp" -> JsDate(value.seconds * TicksPerSecond)
      [] value.type = "object" /\ "_seconds" \in DOMAIN value.fields ->
            JsDate(value.fields["_seconds"].num * TicksPerSecond)
      [] OTHER -> value

\* insert() of a record with a string id.
insertRecord ==
    LET record == calls.record
    IN  /\ calls.pc = "insert"
        /\ db' = PutDoc(db, TABLE_EVALS, record.id.str,
                        [f \in DOMAIN record |->
                            FirestoreValue(serializeValue(record[f]))])
        /\ calls' = [calls EXCEPT !.pc = "load"]
        /\ ret' = [op |-> "insert", ok |-> TRUE, id |-> record.id.str]
        /\ UNCHANGED <<now, autoN, ignoreUndefinedProperties>>

\* load() with keys { id }.
loadRecord ==
    LET id == calls.record.id.str
        data == db[TABLE_EVALS][id]
    IN  /\ calls.pc = "load"
        /\ calls' = [calls EXCEPT !.pc = "done"]
        /\ ret' = [op |-> "load", ok |-> TRUE,
                   value |-> IF Exists(TABLE_EVALS, id)
                             THEN [f \in DOMAIN data |-> deserializeValue(data[f])]
                             ELSE NULL]
        /\ UNCHANGED <<db, now, autoN, ignoreUndefinedProperties>>

\* The values the records of the model carry.
LeafValues ==
    {JsString("a"), JsNumber(1), JsNull} \cup {JsDate(t) : t \in 0..MaxClock}

FieldValues ==
    LeafValues \cup {JsUndefined, JsObject(EmptyMap),
                     JsObject("k" :> JsObject("j" :> JsNumber(1))),
                     JsObject("_seconds" :> JsNumber(1))}
               \cup {JsObject("k" :> leaf) : leaf \in LeafValues}

InitCodec ==
    /\ db = EmptyDb
    /\ now = 0
    /\ autoN = 0
    /\ ignoreUndefinedProperties = FALSE
    /\ ret = [op |-> "init", ok |-> TRUE]
    /\ \E a, b \in FieldValues :
          calls = [pc |-> "insert",
                   record |-> [id |-> JsString("e1"), a |-> a, b |-> b]]

CodecNext == insertRecord \/ loadRecord

SpecCodec == InitCodec /\ [][CodecNext]_vars

(***************************************************************************)
(* Scores saved and listed: saveScore, getScoreById, getScoresByScorerId.  *)
(***************************************************************************)
\* The score of the README and of the scenario of the specification: no
\* runId, traceId or spanId.
ScenarioScore ==
    [scorerId |-> "scorer", entityId |-> "agent", entityType |-> "AGENT",
     source |-> "LIVE", score |-> 1]

InitScores ==
    /\ \E k \in {0, MaxListed - 2} :
          /\ db = SeedDb(k)
          /\ autoN = k + 1
    /\ now = 0
    /\ ignoreUndefinedProperties \in BOOLEAN
    /\ ret = [op |-> "init", ok |-> TRUE]
    /\ calls = IdleCall

ScoresListNext ==
    \/ \E score \in {Score("run1"), ScenarioScore} :
          calls.pc = "idle" /\ saveScore(score)
    \/ \E k \in 0..autoN :
          k >= autoN - 2 /\ calls.pc = "idle" /\ getScoreById(AutoId(k))
    \/ calls.pages = <<>>
          /\ getScoresByScorerId([scorerId |-> "scorer", page |-> DefaultPage,
                                  perPage |-> DefaultPerPage])

SpecScores == InitScores /\ [][ScoresListNext]_vars

(***************************************************************************)
(* Workflow snapshots persisted and loaded.                                *)
(***************************************************************************)
\* The run states the engine persists for a run: as it starts, as step s1
\* suspends, and as step s1 succeeds after a resume.
Snapshots(runId) ==
    {[Snapshot(runId) EXCEPT !.context = EmptyMap],
     [Snapshot(runId) EXCEPT !.status = "suspended",
                             !.suspendedPaths = ("s1" :> 0)],
     [Snapshot(runId) EXCEPT !.status = "success",
                             !.context = ("s1" :> ResultSuccess)]}

SnapshotsNext ==
    \/ \E key \in WorkflowKeys : \E snapshot \in Snapshots(key[2]) :
          persistWorkflowSnapshot(key[1], key[2], "res1", snapshot)
    \/ \E key \in WorkflowKeys : loadWorkflowSnapshot(key[1], key[2])

SpecSnapshots == Init /\ [][SnapshotsNext]_vars

(***************************************************************************)
(* clearTable and dropTable, one store round trip at a time, on a          *)
(* collection of n documents numbered 1..n (the store lists documents in   *)
(* document id order).                                                     *)
(***************************************************************************)
\* const batchSize = 500 of clearTable.
clearBatchSize == 500

METADATA == "_metadata"

\* Mutant: the query of a round without limit(batchSize).
LimitQueryUnlimited(base, tableName, limit) == DOMAIN base[tableName]

\* collectionRef.limit(batchSize).get(): the first batchSize document ids.
LimitQuery(base, tableName, limit) ==
    LET ids == DOMAIN base[tableName]
    IN  {id \in ids : Cardinality({j \in ids : j < id}) < limit}

\* batch.delete(doc.ref) for each document of the snapshot, committed.
DeletedAll(base, tableName, ids) ==
    [base EXCEPT ![tableName] = [id \in DOMAIN @ \ ids |-> @[id]]]

\* Where the call goes when the do-while loop of clearTable is left.
AfterClear(op) == IF op = "dropTable" THEN "metadata" ELSE "done"

clearTableStep(c) ==
    LET call == calls[c]
        snapshot == LimitQuery(db, call.tableName, clearBatchSize)
    IN  /\ call.op \in {"clearTable", "dropTable"}
        /\ \/ /\ call.pc = "query"
              /\ calls' = [calls EXCEPT
                              ![c].rounds = @ + 1,
                              ![c].snapshot = snapshot,
                              ![c].pc = IF Cardinality(snapshot) = 0
                                        THEN AfterClear(call.op) ELSE "commit"]
              /\ UNCHANGED db
           \/ /\ call.pc = "commit"
              /\ Cardinality(call.snapshot) <= FirestoreMaxBatchWrites
              /\ db' = DeletedAll(db, call.tableName, call.snapshot)
              /\ calls' = [calls EXCEPT
                              ![c].submitted = Append(@, Cardinality(call.snapshot)),
                              ![c].pc = IF Cardinality(call.snapshot) >= clearBatchSize
                                        THEN "query" ELSE AfterClear(call.op)]
           \/ /\ call.pc = "metadata"
              /\ db' = RemoveDoc(db, METADATA, call.tableName)
              /\ calls' = [calls EXCEPT ![c].pc = "done"]
        /\ ret' = IF calls'[c].pc = "done"
                  THEN [op |-> call.op, ok |-> TRUE, caller |-> c]
                  ELSE ret
        /\ UNCHANGED <<now, autoN, ignoreUndefinedProperties>>

\* A store with n documents in tableName, two in the other cleared-table
\* candidate, and the _metadata documents createTable wrote for both.
NumberedDocs(n) == [j \in 1..n |-> [id |-> j]]

ClearTables == {TABLE_MESSAGES, TABLE_EVALS}

ClearDb(tableName, n) ==
    [t \in Tables \cup {METADATA} |->
        IF t = tableName THEN NumberedDocs(n)
        ELSE IF t \in ClearTables THEN NumberedDocs(2)
        ELSE IF t = METADATA
        THEN [x \in ClearTables |-> [schema |-> EmptyMap, createdAt |-> 0]]
        ELSE EmptyMap]

\* The collection sizes around the multiples of the batch size.
ClearSizes ==
    {n \in 0..MaxRecords : n % clearBatchSize \in {0, 1, clearBatchSize - 1}}
        \cup {MaxRecords}

ClearCall(op, tableName, n) ==
    [op |-> op, tableName |-> tableName, n |-> n, pc |-> "query", rounds |-> 0,
     snapshot |-> {}, submitted |-> <<>>, failedAt |-> "", error |-> ""]

(***************************************************************************)
(* Store failures: any round trip of a call in flight may be rejected by   *)
(* the store with an error; no handler catches, so the rejection leaves    *)
(* the call.                                                               *)
(***************************************************************************)
StoreErrors == {"UNAVAILABLE", "DEADLINE_EXCEEDED"}

RoundTrips == {"get", "update", "reread", "query", "commit", "metadata"}

\* Mutant: the handler notes the rejection and issues the round trip again.
RoundTripRetried(call, error) ==
    [call EXCEPT !.failedAt = call.pc, !.error = error]

\* An awaited store call rejects: the error propagates out of the handler.
RoundTripFailed(call, error) ==
    [call EXCEPT !.pc = "failed", !.failedAt = call.pc, !.error = error]

RoundTripFails(c) ==
    /\ calls[c].pc \in RoundTrips
    /\ \E error \in StoreErrors :
          /\ calls' = [calls EXCEPT ![c] = RoundTripFailed(@, error)]
          /\ ret' = IF calls'[c].pc = "failed"
                    THEN [op |-> calls[c].op, ok |-> FALSE, caller |-> c,
                          error |-> error]
                    ELSE ret
    /\ UNCHANGED <<db, now, autoN, ignoreUndefinedProperties>>

InitFailures ==
    /\ now = 1
    /\ autoN = 0
    /\ ignoreUndefinedProperties = FALSE
    /\ ret = [op |-> "init", ok |-> TRUE]
    /\ \/ \E a \in RaceArgs("updateThread"), present \in BOOLEAN :
             /\ db = IF present THEN RaceDb(CHOOSE span \in SpanArgs : TRUE)
                     ELSE EmptyDb
             /\ calls = 1 :> [op |-> "updateThread", args |-> a, pc |-> "get",
                              local |-> EmptyMap, delta |-> EmptyMap,
                              committed |-> 0, failedAt |-> "", error |-> "",
                              before |-> db]
       \/ \E op \in {"clearTable", "dropTable"}, tableName \in ClearTables,
             n \in ClearSizes :
             /\ db = ClearDb(tableName, n)
             /\ calls = 1 :> ClearCall(op, tableName, n)

FailuresNext ==
    \/ updateThreadStep(1)
    \/ clearTableStep(1)
    \/ RoundTripFails(1)

SpecFailures == InitFailures /\ [][FailuresNext]_vars

(***************************************************************************)
(* The calls that fill one batch from their whole input and commit it:     *)
(* saveMessages and updateMessages on n messages, deleteThread on a thread *)
(* with n messages. Message k is written k, as in the chunked loops.       *)
(***************************************************************************)
WholeBatchOps == {"saveMessages", "updateMessages", "deleteThread"}

\* The call once its loop has added one operation per message to the batch
\* and the commit is issued.
SubmittedWhole(call) ==
    [call EXCEPT !.pc = "await", !.submitted = Append(@, InputRecords(call.n))]

\* await batch.commit() of the one batch resolved.
CommittedWhole(call) ==
    [call EXCEPT !.pc = "done", !.finished = @ + 1, !.stored = Applied(call)]

\* One step of such a call. `reads` says whether store reads come before
\* the commit (the get per message of updateMessages, the thread delete and
\* the query of deleteThread); `guarded` whether an empty batch is not
\* committed.
WholeBatchStep(op, reads, guarded) ==
    /\ \/ /\ calls.pc = "start"
          /\ calls' = IF reads THEN [calls EXCEPT !.pc = "filled"]
                      ELSE IF guarded /\ calls.n = 0
                      THEN [calls EXCEPT !.pc = "done"]
                      ELSE SubmittedWhole(calls)
       \/ /\ calls.pc = "filled"
          /\ calls' = IF guarded /\ calls.n = 0
                      THEN [calls EXCEPT !.pc = "done"]
                      ELSE SubmittedWhole(calls)
       \/ /\ calls.pc = "await"
          /\ Len(calls.submitted[1]) <= FirestoreMaxBatchWrites
          /\ calls' = CommittedWhole(calls)
       \/ /\ calls.pc = "await"
          /\ calls' = Rejected(calls)
    /\ ret' = IF calls'.pc = "done" THEN [op |-> op, ok |-> TRUE]
              ELSE IF calls'.pc = "failed"
              THEN [op |-> op, ok |-> FALSE, error |-> calls'.error]
              ELSE ret
    /\ UNCHANGED <<db, now, autoN, ignoreUndefinedProperties>>

saveMessagesStep ==
    /\ calls.op = "saveMessages"
    /\ WholeBatchStep("saveMessages", FALSE, TRUE)

updateMessagesStep ==
    /\ calls.op = "updateMessages"
    /\ WholeBatchStep("updateMessages", TRUE, FALSE)

deleteThreadBatchStep ==
    /\ calls.op = "deleteThread"
    /\ WholeBatchStep("deleteThread", TRUE, TRUE)

InitCommits ==
    /\ db = EmptyDb
    /\ now = 0
    /\ autoN = 0
    /\ ignoreUndefinedProperties = FALSE
    /\ ret = [op |-> "init", ok |-> TRUE]
    /\ \E op \in BatchOps \cup WholeBatchOps, n \in 0..MaxRecords :
          calls = [op |-> op, n |-> n, i |-> 0, pc |-> "start",
                   submitted |-> <<>>, finished |-> 0, error |-> 0,
                   rejected |-> {},
                   stored |-> IF op \in {"batchInsert", "batchTraceInsert",
                                         "saveMessages"}
                              THEN {0} ELSE 0..n]

CommitsNext ==
    \/ batchInsertStep
    \/ batchTraceInsertStep
    \/ deleteMessagesStep
    \/ saveMessagesStep
    \/ updateMessagesStep
    \/ deleteThreadBatchStep

SpecCommits == InitCommits /\ [][CommitsNext]_vars

(***************************************************************************)
(* AI spans created and then updated.                                      *)
(***************************************************************************)
SpansNext ==
    \/ \E span \in SpanArgs : createAISpan(span)
    \/ \E key \in SpanKeys, updates \in SpanUpdates :
          updateAISpan(key[1], key[2], updates)

SpecSpans == Init /\ [][SpansNext]_vars

(***************************************************************************)
(* Workflow runs listed and looked up after their snapshot is persisted.   *)
(***************************************************************************)
\* limit = 50, offset = 0 of getWorkflowRuns.
DefaultLimit == 50
DefaultOffset == 0

\* getWorkflowRuns({ workflowName }): the filter, orderBy("createdAt",
\* "desc"), the count, the window, and deserializeWorkflowRun of each
\* document fetched.
getWorkflowRuns(workflowName) ==
    LET coll == db[TABLE_WORKFLOW_SNAPSHOT]
        args == [workflowName |-> workflowName]
        ids == Matching(db, TABLE_WORKFLOW_SNAPSHOT, args)
        ordered == OrderBy(coll, ids, "createdAt", "desc")
        page == Window(ordered, DefaultOffset, DefaultLimit)
    IN  IF \E k \in 1..Len(page) : "snapshot" \notin DOMAIN coll[page[k]]
        THEN Thrown("getWorkflowRuns", args, "Workflow run state data is undefined")
        ELSE Answered("getWorkflowRuns", args,
                      [runs |-> [k \in 1..Len(page) |->
                                    deserializeWorkflowRun(coll[page[k]])],
                       total |-> Len(ordered)])

RunsNext ==
    \/ \E key \in WorkflowKeys : \E snapshot \in Snapshots(key[2]) :
          persistWorkflowSnapshot(key[1], key[2], "res1", snapshot)
    \/ \E key \in WorkflowKeys : loadWorkflowSnapshot(key[1], key[2])
    \/ \E key \in WorkflowKeys : getWorkflowRunById(key[2], key[1])
    \/ \E key \in WorkflowKeys : getWorkflowRuns(key[1])

SpecRuns == Init /\ [][RunsNext]_vars

(***************************************************************************)
(* Messages saved and then updated in lists.                               *)
(***************************************************************************)
\* The lists updateMessages is called with: the ones above, a list whose
\* second message may be missing, and a list with a message that names
\* nothing to update.
MessageUpdateInputs ==
    MessageUpdateLists
       \cup {<<[id |-> "m1", role |-> "assistant"], [id |-> "m3", role |-> "assistant"]>>,
             <<[id |-> "m1", role |-> "assistant"], [id |-> "m2"]>>}

MessageUpdatesNext ==
    \/ \E messages \in MessageLists : saveMessages(messages)
    \/ \E messages \in MessageUpdateInputs : updateMessages(messages)

SpecMessageUpdates == InitMemory /\ [][MessageUpdatesNext]_vars

(***************************************************************************)
(* deleteThread in flight while another caller saves messages of the       *)
(* thread: the save's one round trip lands between any two round trips of  *)
(* the delete.                                                             *)
(***************************************************************************)
saveMessagesDuringDelete ==
    /\ calls.pc \in {"start", "query", "commit"}
    /\ \E id \in {"m7", "m8"} : saveMessages(<<Message(id, calls.threadId)>>)

OrphansNext == deleteThreadStep \/ saveMessagesDuringDelete

SpecOrphans == InitCascade /\ [][OrphansNext]_vars

(***************************************************************************)
(* clearTable and dropTable run alone: no other caller writes, and no      *)
(* round trip fails. The call keeps taking its next round trip.            *)
(***************************************************************************)
InitClear ==
    /\ now = 1
    /\ autoN = 0
    /\ ignoreUndefinedProperties = FALSE
    /\ ret = [op |-> "init", ok |-> TRUE]
    /\ \E op \in {"clearTable", "dropTable"}, tableName \in ClearTables,
          n \in ClearSizes :
          /\ db = ClearDb(tableName, n)
          /\ calls = 1 :> ClearCall(op, tableName, n)

ClearNext == clearTableStep(1)

SpecClear == InitClear /\ [][ClearNext]_vars /\ WF_vars(ClearNext)

(***************************************************************************)
(* Messages read with selectBy.include.                                    *)
(***************************************************************************)
\* getMessages({ threadId, selectBy: { include } }): one query round trip.
getMessages(threadId, include) ==
    /\ calls.pc = "idle"
    /\ ret' = [op |-> "getMessages", ok |-> TRUE,
               args |-> [threadId |-> threadId, include |-> include],
               value |-> GetMessages(db, threadId, include)]
    /\ UNCHANGED <<db, now, autoN, ignoreUndefinedProperties, calls>>

IncludeLists == {<<"m1">>, <<"m2">>, <<"m1", "m2">>, <<"m2", "m3", "m1">>}

IncludePageArgs ==
    {[threadId |-> threadId, include |-> include, page |-> DefaultPage,
      perPage |-> DefaultPerPage] : threadId \in ThreadIds, include \in IncludeLists}

IncludeNext ==
    \/ \E threadId \in ThreadIds, include \in IncludeLists :
          getMessages(threadId, include)
    \/ \E args \in IncludePageArgs :
          calls.pages = <<>> /\ getMessagesPaginated(args)
    \/ \E messages \in MessageLists : saveMessages(messages)

SpecInclude == InitPage /\ [][IncludeNext]_vars

(***************************************************************************)
(* Properties.                                                             *)
(***************************************************************************)
SnapshotDoc(base, id) == base[TABLE_WORKFLOW_SNAPSHOT][id]

\* C3 (as claimed): after an updateWorkflowResults call the stored results
\* map holds every step id stored before plus the written one, the written
\* step maps to the result of this call, every other step keeps its result,
\* and the call returns exactly the stored results map.
C3_ResultsAreLatestAndReturned ==
    [][ret'.op = "updateWorkflowResults" =>
        LET before == StoredResults(ret'.id)
            after == SnapshotDoc(db', ret'.id)["results"]
        IN  /\ DOMAIN after = DOMAIN before \cup {ret'.stepId}
            /\ \A s \in DOMAIN after :
                  after[s] = IF s = ret'.stepId THEN ret'.result ELSE before[s]
            /\ ret'.value = after]_vars

\* The error an update raises for a missing record names the record's id.
NamesId(error, id) == \E prefix \in {"Thread ", "Resource ", "Span "} :
    \E suffix \in {" not found", " in trace tr not found"} :
        error = prefix \o id \o suffix

\* What C4 says of updateThread, updateResource and updateAISpan: on a
\* missing record the call fails naming the id and the store is unchanged.
RaisesOnMissing ==
    /\ (ret'.op = "updateThread" /\ ~Exists(TABLE_THREADS, ret'.id))
          => (~ret'.ok /\ NamesId(ret'.error, ret'.id) /\ db' = db)
    /\ (ret'.op = "updateResource" /\ ~Exists(TABLE_RESOURCES, ret'.id))
          => (~ret'.ok /\ NamesId(ret'.error, ret'.id) /\ db' = db)
    /\ (ret'.op = "updateAISpan"
        /\ Matching(db, TABLE_AI_SPANS,
                    [spanId |-> ret'.id, traceId |-> ret'.traceId]) = {})
          => (~ret'.ok /\ NamesId(ret'.error, ret'.id) /\ db' = db)

\* C4 (as claimed): updateThread, updateResource, updateWorkflowState and
\* updateAISpan each raise a failure naming the missing record's id when the
\* target document does not exist, and leave the store unchanged.
C4_AllUpdatesRaiseOnMissing ==
    [][/\ RaisesOnMissing
       /\ (ret'.op = "updateWorkflowState"
           /\ ~Exists(TABLE_WORKFLOW_SNAPSHOT, ret'.id))
             => (~ret'.ok /\ db' = db)]_vars

\* C4 (amended): updateThread, updateResource and updateAISpan raise a
\* failure naming the missing record's id; updateWorkflowState on a missing
\* snapshot raises nothing and returns undefined; in all four cases the store
\* is unchanged.
C4_MissingRecord ==
    [][/\ RaisesOnMissing
       /\ (ret'.op = "updateWorkflowState"
           /\ ~Exists(TABLE_WORKFLOW_SNAPSHOT, ret'.id))
             => (ret'.ok /\ ret'.value = UNDEF /\ db' = db)]_vars

\* C4 witness: updateWorkflowState was called on a snapshot that is not
\* stored, while other records are.
C4_Witness ==
    /\ ret.op = "updateWorkflowState"
    /\ ~ret.found
    /\ db[TABLE_THREADS] # EmptyMap

\* C5: a successful updateWorkflowState changes only status, updatedAt and the
\* optional fields opts supplies; every other field of the snapshot document
\* keeps its value, and no field is added or removed besides those.
C5_StateUpdateFrame ==
    [][(ret'.op = "updateWorkflowState" /\ ret'.found) =>
        LET before == SnapshotDoc(db, ret'.id)
            after == SnapshotDoc(db', ret'.id)
            supplied == {"result", "error", "suspendedPaths", "waitingPaths"}
                            \cap DOMAIN ret'.opts
            touched == {"status", "updatedAt"} \cup supplied
        IN  /\ DOMAIN after \ touched = DOMAIN before \ touched
            /\ \A f \in DOMAIN before \ touched : after[f] = before[f]
            /\ after["status"] = ret'.opts["status"]
            /\ after["updatedAt"] = now
            /\ \A f \in supplied : after[f] = ret'.opts[f]]_vars

\* C5 witness: updateWorkflowState succeeded on a snapshot that holds step
\* results and a resourceId, with no error supplied.
C5_Witness ==
    /\ ret.op = "updateWorkflowState"
    /\ ret.found
    /\ "error" \notin DOMAIN ret.opts
    /\ "results" \in DOMAIN SnapshotDoc(db, ret.id)
    /\ SnapshotDoc(db, ret.id)["results"] # EmptyMap

\* C6: after deleteThread(T) completes, getThreadById(T) returns null,
\* getMessages of T is empty, no message with threadId T is stored, and every
\* other thread and every message of another thread is unchanged.
C6_CascadeDelete ==
    [][(ret'.op = "deleteThread" /\ ret'.ok) =>
        LET T == ret'.id
            mine == MessagesOfThread(db, T)
        IN  /\ GetThreadById(db', T) = NULL
            /\ GetMessages(db', T, <<>>) = <<>>
            /\ MessagesOfThread(db', T) = {}
            /\ DOMAIN db'[TABLE_THREADS] = DOMAIN db[TABLE_THREADS] \ {T}
            /\ \A t \in DOMAIN db'[TABLE_THREADS] :
                  db'[TABLE_THREADS][t] = db[TABLE_THREADS][t]
            /\ DOMAIN db'[TABLE_MESSAGES] = DOMAIN db[TABLE_MESSAGES] \ mine
            /\ \A m \in DOMAIN db'[TABLE_MESSAGES] :
                  db'[TABLE_MESSAGES][m] = db[TABLE_MESSAGES][m]
            /\ db'[TABLE_RESOURCES] = db[TABLE_RESOURCES]]_vars

\* C6 witness: deleteThread removed a stored thread and its three messages
\* while another thread and a message of it are stored.
C6_Witness ==
    /\ ret.op = "deleteThread"
    /\ ret.ok
    /\ ret.hadThread
    /\ ret.deleted = 3
    /\ ret.id = "T1"
    /\ "T2" \in DOMAIN db[TABLE_THREADS]
    /\ "m4" \in DOMAIN db[TABLE_MESSAGES]

\* C9 (as claimed): every document a call writes carries createdAt, and
\* carries updatedAt set to the time of that call.
C9_WritesStampBothTimes ==
    [][\A t \in Tables : \A id \in DOMAIN db'[t] :
        (id \notin DOMAIN db[t] \/ db'[t][id] # db[t][id]) =>
            /\ "createdAt" \in DOMAIN db'[t][id]
            /\ "updatedAt" \in DOMAIN db'[t][id]
            /\ db'[t][id]["updatedAt"] = now]_vars

\* C7: a chunked batch call on n records issues ceil(n / 500) commits, one
\* at a time (a commit is submitted only when every earlier one has
\* finished); commit j carries records (j-1)*500+1 .. min(j*500, n) of the
\* input in input order, so every commit but the last carries exactly 500.
C7_ChunkedSequentialCommits ==
    /\ Len(calls.submitted) <= calls.finished + 1
    /\ \A j \in 1..Len(calls.submitted) :
          /\ Len(calls.submitted[j]) =
                Min(FirestoreMaxBatchWrites,
                    calls.n - (j - 1) * FirestoreMaxBatchWrites)
          /\ \A k \in 1..Len(calls.submitted[j]) :
                calls.submitted[j][k] = (j - 1) * FirestoreMaxBatchWrites + k
    /\ calls.pc = "done" =>
          /\ Len(calls.submitted) = Ceil(calls.n, FirestoreMaxBatchWrites)
          /\ calls.finished = Len(calls.submitted)
          /\ calls.stored = IF calls.op = "deleteMessages"
                            THEN {0} ELSE 0..calls.n

C7_Witness ==
    /\ calls.pc = "done"
    /\ Len(calls.submitted) = 3
    /\ Len(calls.submitted[3]) < FirestoreMaxBatchWrites
    /\ Len(calls.submitted[3]) > 1

\* C8: when the commit of window k is rejected, the call fails with the
\* error of window k, the store holds the effects of windows 1..k-1 and
\* none of window k or later, and no later window is submitted.
C8_FailureKeepsEarlierWindows ==
    calls.rejected # {} =>
        \E k \in calls.rejected :
            LET before == (k - 1) * FirestoreMaxBatchWrites
            IN  /\ calls.rejected = {k}
                /\ calls.pc = "failed"
                /\ ret = [op |-> calls.op, ok |-> FALSE, error |-> k]
                /\ Len(calls.submitted) = k
                /\ calls.stored = IF calls.op = "deleteMessages"
                                  THEN {0} \cup ((before + 1)..calls.n)
                                  ELSE 0..before

C8_Witness ==
    /\ calls.rejected = {2}
    /\ calls.pc = "failed"
    /\ calls.n > 2 * FirestoreMaxBatchWrites

\* C1: whatever the store holds and whatever is written between the count
\* and the fetch, a paginated list operation called with page >= 1 and
\* perPage >= 1 returns at most perPage items, and its hasMore is true
\* exactly when its total is greater than (page - 1) * perPage + perPage.
C1_PageSizeAndHasMore ==
    (ret.op \in PagedOps /\ ret.ok /\ "items" \in DOMAIN ret) =>
        /\ Len(ret.items) <= ret.perPage
        /\ ret.hasMore = (ret.total > (ret.page - 1) * ret.perPage + ret.perPage)

\* C1 witness: a full page with hasMore set came back from a query whose
\* matches changed between the count and the fetch.
C1_Witness ==
    /\ ret.op = "getMessagesPaginated"
    /\ "items" \in DOMAIN ret
    /\ ret.hasMore
    /\ Len(ret.items) = ret.perPage
    /\ ret.total # Len(QueryOf(ret.op, db, ret.args))

\* Whether two pages hold a common document.
Overlap(a, b) == SeqRange(a.ids) \cap SeqRange(b.ids) # {}

RECURSIVE ItemsIn(_)
ItemsIn(pages) ==
    IF pages = <<>> THEN 0 ELSE Len(Head(pages).items) + ItemsIn(Tail(pages))

\* C2 (as claimed): with no write interleaved, when N stored records match
\* the filters and the page size is p, the requests for pages 1..ceil(N/p)
\* all return; hasMore is true on every page but the last; no record is on
\* two pages; and the lengths of the item lists sum to N.
C2_ScanReturnsEveryMatchOnce ==
    LET pages == calls.pages
        needed == Ceil(MatchCount(calls.op, db, calls.args), calls.args.perPage)
    IN  /\ \A j \in 1..Len(pages) : pages[j].ok
        /\ \A j \in 1..Len(pages) : pages[j].hasMore = (j < needed)
        /\ \A i, j \in 1..Len(pages) : i < j => ~Overlap(pages[i], pages[j])
        /\ Len(pages) = needed =>
              ItemsIn(pages) = MatchCount(calls.op, db, calls.args)

\* The documents that hold the record two racing callers update.
RaceTable ==
    CASE calls[1].op = "updateThread" -> TABLE_THREADS
      [] calls[1].op = "updateResource" -> TABLE_RESOURCES
      [] calls[1].op = "updateWorkflowState" -> TABLE_WORKFLOW_SNAPSHOT
      [] OTHER -> TABLE_AI_SPANS

RaceDocs ==
    CASE calls[1].op = "updateThread" -> {calls[1].args.id}
      [] calls[1].op = "updateResource" -> {calls[1].args.resourceId}
      [] calls[1].op = "updateWorkflowState" ->
            {SnapshotDocId(calls[1].args.workflowName, calls[1].args.runId)}
      [] OTHER -> Matching(db, TABLE_AI_SPANS,
                           [spanId |-> calls[1].args.spanId,
                            traceId |-> calls[1].args.traceId])

\* C10 (as claimed): once two concurrent updates of one record have both
\* completed, every field the later write touched holds the later writer's
\* value, and every field only the earlier write touched holds the earlier
\* writer's value.
C10_OnlySharedFieldsAreLost ==
    (\A c \in Callers : calls[c].pc = "done") =>
        \A early, late \in Callers :
            calls[early].committed < calls[late].committed =>
                \A d \in RaceDocs :
                    LET doc == db[RaceTable][d]
                        mine == calls[early].delta
                        theirs == calls[late].delta
                    IN  /\ \A f \in DOMAIN theirs :
                              f \in DOMAIN doc /\ doc[f] = theirs[f]
                        /\ \A f \in DOMAIN mine \ DOMAIN theirs :
                              f \in DOMAIN doc /\ doc[f] = mine[f]


\* C11 (as claimed): once two concurrent updateWorkflowResults calls on one
\* snapshot have both completed, every step id either call wrote is in the
\* stored results map, and a step id written by only one of the calls holds
\* the value that call wrote.
C11_ConcurrentResultsKeepEachStep ==
    LET stored == StoredResults(SnapshotDocId("a", "c"))
        stepId(c) == calls[c].args.stepId
    IN  (\A c \in Callers : calls[c].pc = "done")
        => \A c \in Callers :
              /\ stepId(c) \in DOMAIN stored
              /\ DOMAIN calls[c].local \subseteq DOMAIN stored
              /\ (\A d \in Callers \ {c} : stepId(d) # stepId(c))
                   => stored[stepId(c)] = calls[c].args.result


RECURSIVE Concat(_)
Concat(lists) == IF lists = <<>> THEN <<>> ELSE Head(lists) \o Concat(Tail(lists))

\* C12: a completed getMessagesById with n ids has issued ceil(n / 10)
\* queries, each with at most 10 ids, that together carry the ids in input
\* order; it returns the stored messages whose id is requested and nothing
\* else, each of them once when the requested ids are distinct.
C12_ChunkedInQueries ==
    LET ids == calls.messageIds
        n == Len(ids)
        requested == {d \in DOMAIN db[TABLE_MESSAGES] : d \in SeqRange(ids)}
        returned == SeqRange(ret.value)
    IN  (ret.op = "getMessagesById" /\ calls.pc = "done")
        => /\ Len(calls.queries) = Ceil(n, inBatchSize)
           /\ \A q \in 1..Len(calls.queries) :
                 Len(calls.queries[q]) \in 1..inBatchSize
           /\ Concat(calls.queries) = ids
           /\ returned = {deserializeMessage(db[TABLE_MESSAGES][d]) : d \in requested}
           /\ Cardinality(SeqRange(ids)) = n => Len(ret.value) = Cardinality(requested)

C12_Witness ==
    /\ ret.op = "getMessagesById"
    /\ calls.pc = "done"
    /\ Len(calls.messageIds) = 25
    /\ Len(calls.queries) = 3
    /\ Len(ret.value) = 25


\* C13: a lookup by getThreadById, getResourceById, getScoreById,
\* getAITrace, loadWorkflowSnapshot or getWorkflowRunById of a document that
\* is not stored returns null without raising, and no lookup changes the
\* store.
C13_MissingLookupReturnsNull ==
    [][ret'.op \in LookupOps =>
        /\ db' = db
        /\ Missing(db, ret'.op, ret'.args) => (ret'.ok /\ ret'.value = NULL)]_vars

\* C13 witness: getWorkflowRunById without a workflow name answered null
\* while other snapshots, a thread and a trace are stored.
C13_Witness ==
    /\ ret.op = "getWorkflowRunById"
    /\ ret.args.workflowName = UNDEF
    /\ ret.ok
    /\ ret.value = NULL
    /\ db[TABLE_WORKFLOW_SNAPSHOT] # EmptyMap


\* C14 (as claimed): a paginated list operation called without page and
\* perPage returns the first 20 matching records and reports page = 1 and
\* perPage = 20.
C14_DefaultsToFirstTwenty ==
    LET op == calls.request.op
        request == calls.request.args
        answer == calls.pages[1]
        matching == MatchCount(op, db, request)
    IN  (calls.pages # <<>> /\ DOMAIN request \cap {"page", "perPage"} = {})
        => /\ answer.ok
           /\ answer.page = 1
           /\ answer.perPage = 20
           /\ Len(answer.items) = Min(20, matching)


\* C15 (as claimed): getAITracesPaginated does not fail when spans match;
\* its total is the number of stored spans that match all supplied filters
\* and its spans are the window [(page-1)*perPage, (page-1)*perPage + perPage)
\* of them.
C15_AITracesListMatchingSpans ==
    ret.op = "getAITracesPaginated"
    => LET matching == MatchCount(ret.op, db, ret.args)
           offset == (ret.args.page - 1) * ret.args.perPage
       IN  /\ ret.ok
           /\ ret.total = matching
           /\ Len(ret.items) = Min(ret.args.perPage, matching - Min(offset, matching))
           /\ \A k \in 1..Len(ret.items) :
                 \E d \in Matching(db, TABLE_AI_SPANS, SpanFilterKeys(ret.args)) :
                     ret.items[k] = deserializeRecord(db[TABLE_AI_SPANS][d])


\* C16: deleteThread deletes the thread document first and its messages
\* second. A call that fails after the thread document was deleted leaves
\* the thread deleted and every message of the thread stored; at no point is
\* the thread present with part of its messages deleted, and the messages of
\* a thread are deleted all at once or not at all.
C16_ThreadFirstThenMessages ==
    LET threadId == calls.threadId
        before == MessagesOfThread(calls.before, threadId)
        stored == MessagesOfThread(db, threadId)
    IN  /\ (calls.pc = "failed" /\ calls.failedAt # "start")
              => /\ ~ret.ok
                 /\ threadId \notin DOMAIN db[TABLE_THREADS]
                 /\ stored = before
                 /\ db[TABLE_MESSAGES] = calls.before[TABLE_MESSAGES]
        /\ threadId \in DOMAIN db[TABLE_THREADS] => stored = before
        /\ stored \in {before, {}}
        /\ calls.pc # "start" /\ calls.failedAt # "start"
              => threadId \notin DOMAIN db[TABLE_THREADS]

\* C16 witness: the commit of the message batch failed for a thread that
\* was stored with several messages, next to another thread with messages.
C16_Witness ==
    /\ calls.pc = "failed"
    /\ calls.failedAt = "commit"
    /\ calls.threadId \in DOMAIN calls.before[TABLE_THREADS]
    /\ Cardinality(MessagesOfThread(db, calls.threadId)) > 1
    /\ Cardinality(DOMAIN db[TABLE_MESSAGES]) > Len(calls.batch)


\* What a list of inserts must leave in a collection, stored[k] being the
\* data position k of `records` is stored as: position k is stored under
\* its id when it carries one and is the last of the list with that id, and
\* under a document that did not exist before when it carries none; every
\* other document is as it was.
InsertedAsUpsert(before, after, records, stored) ==
    LET named == {k \in 1..Len(records) : "id" \in DOMAIN records[k]}
        last == {k \in named : \A j \in named : records[j].id = records[k].id => j <= k}
        ids == {records[k].id : k \in named}
        fresh == DOMAIN after \ (DOMAIN before \cup ids)
    IN  /\ \A k \in last : /\ records[k].id \in DOMAIN after
                           /\ after[records[k].id] = stored[k]
        /\ DOMAIN before \cup ids \subseteq DOMAIN after
        /\ Cardinality(fresh) = Len(records) - Cardinality(named)
        /\ \A d \in fresh : \E k \in 1..Len(records) \ named : after[d] = stored[k]
        /\ \A d \in DOMAIN before \ ids : after[d] = before[d]

\* C17: insert and batchInsert (and batchTraceInsert) write a record that
\* carries an id to the document of that id, so that a second insert of the
\* id leaves one document, holding the second record's fields; a record
\* without an id goes to a newly generated document each time and overwrites
\* no existing document.
C17_InsertTargetsRecordId ==
    [][/\ \A record \in InsertRecords :
             insert(TABLE_EVALS, record)
                => InsertedAsUpsert(db[TABLE_EVALS], db'[TABLE_EVALS], <<record>>,
                                    <<serializeRecord(record)>>)
       /\ \A records \in InsertLists :
             batchInsert(TABLE_EVALS, records)
                => InsertedAsUpsert(db[TABLE_EVALS], db'[TABLE_EVALS], records,
                                    [k \in 1..Len(records) |-> serializeRecord(records[k])])
       /\ \A records \in InsertLists :
             batchTraceInsert(records)
                => InsertedAsUpsert(db[TABLE_TRACES], db'[TABLE_TRACES], records,
                                    [k \in 1..Len(records) |->
                                        serializeTrace(records[k], now)])]_vars

\* C17 witness: the id e1 was inserted twice, by two calls, and the one
\* document of the collection holds the second record.
C17_Witness ==
    /\ ret.op = "insert"
    /\ now = 2
    /\ autoN = 0
    /\ DOMAIN db[TABLE_EVALS] = {"e1"}
    /\ DOMAIN db[TABLE_TRACES] = {}
    /\ db[TABLE_EVALS]["e1"] = [id |-> "e1", agentName |-> "other", score |-> 1]


\* Equality of an original value and the value read back: dates at second
\* precision, an undefined field read back as null, objects field by field.
RECURSIVE SameValue(_, _)
SameValue(original, back) ==
    CASE original.type = "undefined" -> back = JsNull
      [] original.type = "date" ->
            /\ back.type = "date"
            /\ back.ticks \div TicksPerSecond = original.ticks \div TicksPerSecond
      [] original.type = "object" ->
            /\ back.type = "object"
            /\ DOMAIN back.fields = DOMAIN original.fields
            /\ \A k \in DOMAIN original.fields :
                  SameValue(original.fields[k], back.fields[k])
      [] OTHER -> back = original

\* C18 (as claimed): a record of strings, numbers, dates, nested plain
\* objects and nulls that is inserted with an id and loaded by that id comes
\* back equal field by field, dates at second precision, and a field given
\* as undefined comes back as null.
C18_InsertLoadRoundTrip ==
    (calls.pc = "done" /\ ret.op = "load")
    => /\ ret.value # NULL
       /\ DOMAIN ret.value = DOMAIN calls.record
       /\ \A f \in DOMAIN calls.record : SameValue(calls.record[f], ret.value[f])


\* C19 (as claimed): every saveScore call with scorerId s stores a score
\* under a new generated id with createdAt = updatedAt, so that after k calls
\* k scores of s are stored; getScoreById of a saved id returns that score;
\* getScoresByScorerId(s, page 1, perPage 20) returns total = k, min(k, 20)
\* scores and hasMore = (k > 20).
C19_SavedScoresAreListed ==
    LET scores == db[TABLE_SCORERS]
        ofScorer == Matching(db, TABLE_SCORERS, [scorerId |-> "scorer"])
        k == autoN - 1
    IN  /\ Cardinality(ofScorer) = k
        /\ ret.op = "saveScore"
              => /\ ret.ok
                 /\ ret.id \in ofScorer
                 /\ scores[ret.id]["createdAt"] = scores[ret.id]["updatedAt"]
        /\ (ret.op = "getScoreById" /\ ret.args.id \in ofScorer)
              => /\ ret.value # NULL
                 /\ ret.value["id"] = ret.args.id
                 /\ ret.value["scorerId"] = "scorer"
        /\ (ret.op = "getScoresByScorerId" /\ "total" \in DOMAIN ret)
              => /\ ret.total = k
                 /\ Len(ret.items) = Min(k, 20)
                 /\ ret.hasMore = (k > 20)


\* The fields of a run state that C20 names.
RunStateFields ==
    {"runId", "status", "result", "error", "suspendedPaths", "waitingPaths",
     "context", "value", "activePaths", "serializedStepGraph"}

\* C20 (as claimed): once persistWorkflowSnapshot(workflowName, runId,
\* snapshot) has succeeded, loadWorkflowSnapshot(workflowName, runId) returns
\* a state that is not null and agrees with the snapshot on every named field
\* the snapshot supplies, also when an earlier snapshot was persisted under
\* the key.
C20_LoadReturnsPersistedSnapshot ==
    [][\A key \in WorkflowKeys : \A snapshot \in Snapshots(key[2]) :
          (persistWorkflowSnapshot(key[1], key[2], "res1", snapshot) /\ ret'.ok)
             => LET loaded == LoadedSnapshot(db', key[1], key[2])
                IN  /\ loaded # NULL
                    /\ \A f \in RunStateFields \cap DOMAIN snapshot :
                          loaded[f] = snapshot[f]]_vars

\* What the store holds when a round trip of the call has been rejected:
\* the writes the call completed earlier, and nothing else of the call.
WritesBeforeFailure(call) ==
    IF call.op = "updateThread"
    THEN IF call.failedAt = "reread"
         THEN db = PutDoc(call.before, TABLE_THREADS, call.args.id,
                          Update(call.before[TABLE_THREADS][call.args.id],
                                 call.delta))
         ELSE db = call.before
    ELSE db = DeletedAll(ClearDb(call.tableName, call.n), call.tableName,
                         1..(clearBatchSize * Len(call.submitted)))

\* C21: when a store round trip of an operation is rejected, the operation
\* fails with the store's error unchanged, issues no further store call (no
\* retry), and the writes it completed before the rejected round trip stay
\* applied.
C21_FailurePropagatesOnce ==
    /\ [](calls[1].failedAt # "" =>
             /\ calls[1].pc = "failed"
             /\ calls[1].error \in StoreErrors
             /\ ret = [op |-> calls[1].op, ok |-> FALSE, caller |-> 1,
                       error |-> calls[1].error]
             /\ WritesBeforeFailure(calls[1]))
    /\ [][calls[1].pc = "failed" => UNCHANGED <<db, calls>>]_vars

C21_Witness ==
    /\ calls[1].op = "clearTable"
    /\ calls[1].pc = "failed"
    /\ calls[1].failedAt = "commit"
    /\ Len(calls[1].submitted) = 2
    /\ ret.error = "UNAVAILABLE"

\* C22 (as claimed): no call submits a batch commit of more than 500
\* operations, whatever the size of its input.
C22_NoCommitOverTheLimit ==
    \A j \in 1..Len(calls.submitted) :
        Len(calls.submitted[j]) <= FirestoreMaxBatchWrites

\* The stored spans with the given spanId and traceId.
SpansOf(base, spanId, traceId) ==
    Matching(base, TABLE_AI_SPANS, [spanId |-> spanId, traceId |-> traceId])

\* C23 (as claimed): an updateAISpan that succeeds never increases the
\* number of stored span documents, and when one document held the
\* (traceId, spanId) before it, one document holds it afterwards and carries
\* the updates.
C23_UpdateKeepsOneSpanDocument ==
    [][\A key \in SpanKeys, updates \in SpanUpdates :
          (updateAISpan(key[1], key[2], updates) /\ ret'.ok) =>
             /\ Cardinality(DOMAIN db'[TABLE_AI_SPANS])
                   <= Cardinality(DOMAIN db[TABLE_AI_SPANS])
             /\ Cardinality(SpansOf(db, key[1], key[2])) = 1 =>
                   /\ Cardinality(SpansOf(db', key[1], key[2])) = 1
                   /\ \A i \in SpansOf(db', key[1], key[2]) :
                         \A f \in DOMAIN updates :
                            db'[TABLE_AI_SPANS][i][f] = updates[f]]_vars

\* Whether the snapshot document of the key is the one a
\* persistWorkflowSnapshot for that key wrote.
Persisted(key) ==
    LET id == SnapshotDocId(key[1], key[2])
    IN  /\ Exists(TABLE_WORKFLOW_SNAPSHOT, id)
        /\ db[TABLE_WORKFLOW_SNAPSHOT][id].workflowName = key[1]
        /\ db[TABLE_WORKFLOW_SNAPSHOT][id].runId = key[2]

\* Whether a returned run is the persisted run of the key.
IsRunOf(run, key) ==
    /\ run.runId = key[2]
    /\ run.workflowName = key[1]
    /\ run.snapshot = LoadedSnapshot(db, key[1], key[2])

\* C24 (as claimed): once a snapshot is persisted for (workflowName, runId),
\* getWorkflowRunById(runId, workflowName) and getWorkflowRuns filtered by
\* the workflowName do not fail and return the run of that key, with the
\* snapshot loadWorkflowSnapshot returns.
C24_PersistedRunIsFound ==
    [][\A key \in WorkflowKeys :
          Persisted(key) =>
             /\ getWorkflowRunById(key[2], key[1]) =>
                   /\ ret'.ok
                   /\ IsRunOf(ret'.value, key)
             /\ getWorkflowRuns(key[1]) =>
                   /\ ret'.ok
                   /\ \E k \in 1..Len(ret'.value.runs) :
                         IsRunOf(ret'.value.runs[k], key)]_vars

\* C25 (as claimed): updateMessages on a list with a message that is not
\* stored fails naming the first such message and changes no document; on a
\* list whose messages are all stored it succeeds, applies every update,
\* and leaves each message's id and createdAt as they were.
C25_UpdateMessagesAllOrNothing ==
    [][\A messages \in MessageUpdateInputs :
          updateMessages(messages) =>
             LET k == FirstMissing(messages)
             IN  IF k # 0
                 THEN /\ ~ret'.ok
                      /\ ret'.error = "Message " \o messages[k].id \o " not found"
                      /\ db' = db
                 ELSE /\ ret'.ok
                      /\ db' = ApplyMessageUpdates(db, messages)
                      /\ \A j \in 1..Len(messages) :
                            LET id == messages[j].id
                            IN  /\ db'[TABLE_MESSAGES][id].id = id
                                /\ db'[TABLE_MESSAGES][id].createdAt
                                      = db[TABLE_MESSAGES][id].createdAt]_vars

\* Whether the step is a write for the (workflowName, runId) pair `key`.
WritesFor(key) ==
    \/ \E resourceId \in ResourceIdArgs :
          persistWorkflowSnapshot(key[1], key[2], resourceId, Snapshot(key[2]))
    \/ \E stepId \in StepIds, result \in StepResults :
          updateWorkflowResults(key[1], key[2], stepId, result, EmptyMap)
    \/ \E opts \in StateOpts : updateWorkflowState(key[1], key[2], opts)

\* C26 (as claimed): a persistWorkflowSnapshot, updateWorkflowResults or
\* updateWorkflowState for one (workflowName, runId) pair never changes what
\* loadWorkflowSnapshot returns for a different pair.
C26_PairsDoNotShareADocument ==
    [][\A key \in WorkflowKeys :
          WritesFor(key) =>
             \A other \in WorkflowKeys \ {key} :
                LoadedSnapshot(db', other[1], other[2])
                   = LoadedSnapshot(db, other[1], other[2])]_vars

\* C27 (as claimed): when deleteThread(T) has completed, and a saveMessages
\* with messages of T ran while it was in flight, no message with threadId T
\* is stored.
C27_NoMessageOutlivesItsThread ==
    calls.pc = "done" => MessagesOfThread(db, calls.threadId) = {}

\* The collections whose records C28 is about.
MemoryTables == {TABLE_THREADS, TABLE_RESOURCES, TABLE_MESSAGES}

\* Whether the step leaves the createdAt of every record it keeps as it was.
CreatedAtKept ==
    \A coll \in MemoryTables :
        \A id \in DOMAIN db[coll] \cap DOMAIN db'[coll] :
            "createdAt" \in DOMAIN db[coll][id] =>
                /\ "createdAt" \in DOMAIN db'[coll][id]
                /\ db'[coll][id].createdAt = db[coll][id].createdAt

\* C28 (as claimed): no saveThread, updateThread, saveResource,
\* updateResource, saveMessages or updateMessages changes the createdAt of
\* a thread, resource or message that is already stored.
C28_CreatedAtIsStable ==
    [][CreatedAtKept]_vars

\* What the store holds when the call on a collection of n documents is
\* done: the collection empty, every other collection as it was, and the
\* _metadata document of the collection removed by dropTable only.
ClearedStore(call) ==
    LET before == ClearDb(call.tableName, call.n)
    IN  /\ DOMAIN db[call.tableName] = {}
        /\ \A t \in Tables \ {call.tableName} : db[t] = before[t]
        /\ db[METADATA] = IF call.op = "dropTable"
                          THEN RemoveDoc(before, METADATA, call.tableName)[METADATA]
                          ELSE before[METADATA]

\* C29: run alone, clearTable on a collection of n documents terminates
\* after floor(n / 500) + 1 rounds, each deleting at most 500 documents,
\* with the collection empty and the other collections unchanged; dropTable
\* also removes the collection's _metadata document.
C29_ClearTableTerminatesEmpty ==
    /\ <>(calls[1].pc = "done")
    /\ [](calls[1].pc = "done" =>
             /\ calls[1].rounds = (calls[1].n \div clearBatchSize) + 1
             /\ ClearedStore(calls[1]))
    /\ [](\A j \in 1..Len(calls[1].submitted) :
             calls[1].submitted[j] <= clearBatchSize)

C29_Witness ==
    /\ calls[1].op = "dropTable"
    /\ calls[1].pc = "done"
    /\ calls[1].n = 2 * clearBatchSize
    /\ calls[1].rounds = 3
    /\ calls[1].tableName \notin DOMAIN db[METADATA]

\* The stored messages of the thread whose id is one of the included ids,
\* in ascending createdAt order.
IncludedIds(base, threadId, include) ==
    OrderBy(base[TABLE_MESSAGES],
            {m \in MessagesOfThread(base, threadId) :
                \E k \in 1..Len(include) : m = include[k]},
            "createdAt", "asc")

\* C30 (as claimed): getMessages and getMessagesPaginated with a non-empty
\* include list return the stored messages of the thread whose id is one of
\* the included ids, in ascending createdAt order, and no other message.
C30_IncludeReturnsTheIncludedMessages ==
    [][/\ \A threadId \in ThreadIds, include \in IncludeLists :
             getMessages(threadId, include) =>
                LET ids == IncludedIds(db, threadId, include)
                IN  ret'.value =
                       [k \in 1..Len(ids) |->
                           deserializeMessage(db[TABLE_MESSAGES][ids[k]])]
       /\ \A args \in IncludePageArgs :
             (getMessagesPaginated(args) /\ calls.pc = "counted") =>
                ret'.ids = IncludedIds(db, args.threadId, args.include)]_vars

====
